---- MODULE Spec2Model ----
(***************************************************************************)
(* State-machine model of the drone_mobile client library:                 *)
(*   - AuthenticationManager (auth.py): the in-memory token, the manager   *)
(*     lock, the password and refresh grants, the token file, the legacy   *)
(*     token file and its migration;                                       *)
(*   - DroneMobileClient (client.py, async_client.py): the three vehicle   *)
(*     API operations and their reaction to a 401.                         *)
(* Callers are threads of one process sharing one manager.  A request to   *)
(* the identity provider or to the vehicle API is in flight between the    *)
(* step that sends it and the step that receives its response, so other    *)
(* threads and the clock can move in between.                              *)
(***************************************************************************)
EXTENDS Integers, Sequences, FiniteSets, TLC

\* ---------------------------------------------------------------- bounds

\* The callers (threads) of the one shared manager.
Threads == {1, 2}

\* The clock advances in steps of TickLen seconds, at most MaxTicks times.
TickLen == 4000
MaxTicks == 1

\* The identity provider answers 200 at most MaxSerial times in a run.
MaxSerial == 2

\* A client operation sees a 401 only while it has made fewer HTTP calls.
MaxHttp == 3

\* expires_at of the record found in the token file at start, and of the
\* legacy record's expiry_time.
InitExpiry == 1000

\* The ExpiresIn values the provider sends (below and above the margin).
ExpiresInSet == {60, 3600}

\* ------------------------------------------------------------- constants

TOKEN_EXPIRY_MARGIN == 100

\* ----------------------------------------------------------- credentials

\* self._token = None
NoToken == [absent |-> TRUE]

\* An empty refresh token ("" in the source).
NoRT == <<>>

IsExpiredStrict(tok, t) == t > tok.expires_at

\* AuthToken.is_expired at instant t
IsExpired(tok, t) == t >= tok.expires_at

\* datetime.isoformat / datetime.fromisoformat
IsoFormat(x) == <<"iso", x>>
FromIsoFormat(s) == s[2]

ToDictNoRefreshToken(tok) ==
  [access_token |-> tok.access_token,
   id_token |-> tok.id_token,
   refresh_token |-> NoRT,
   token_type |-> tok.token_type,
   expires_at |-> IsoFormat(tok.expires_at)]

\* AuthToken.to_dict
ToDict(tok) ==
  [access_token |-> tok.access_token,
   id_token |-> tok.id_token,
   refresh_token |-> tok.refresh_token,
   token_type |-> tok.token_type,
   expires_at |-> IsoFormat(tok.expires_at)]

\* AuthToken.from_dict
FromDict(data) ==
  [access_token |-> data.access_token,
   id_token |-> data.id_token,
   refresh_token |-> data.refresh_token,
   token_type |-> data.token_type,
   expires_at |-> FromIsoFormat(data.expires_at)]

\* The AuthenticationResult of the provider's n-th 200 response.
AuthResult(n, e, withRT) ==
  IF withRT
  THEN [AccessToken |-> <<"a", n>>, IdToken |-> <<"i", n>>,
        RefreshToken |-> <<"r", n>>, TokenType |-> "Bearer", ExpiresIn |-> e]
  ELSE [AccessToken |-> <<"a", n>>, IdToken |-> <<"i", n>>,
        TokenType |-> "Bearer", ExpiresIn |-> e]

ParseAuthResponseNoMargin(ar, t) ==
  [access_token |-> ar.AccessToken,
   id_token |-> ar.IdToken,
   refresh_token |-> ar.RefreshToken,
   token_type |-> ar.TokenType,
   expires_at |-> t + ar.ExpiresIn]

\* _parse_auth_response, called at instant t
ParseAuthResponse(ar, t) ==
  [access_token |-> ar.AccessToken,
   id_token |-> ar.IdToken,
   refresh_token |-> ar.RefreshToken,
   token_type |-> ar.TokenType,
   expires_at |-> t + ar.ExpiresIn - TOKEN_EXPIRY_MARGIN]

RefreshCarryNone(ar, tok) ==
  IF "RefreshToken" \in DOMAIN ar THEN ar
  ELSE [x \in DOMAIN ar \cup {"RefreshToken"} |->
          IF x = "RefreshToken" THEN NoRT ELSE ar[x]]

\* _refresh_token on a 200: a response without RefreshToken gets the
\* refresh token of the credential being refreshed.
RefreshCarry(ar, tok) ==
  IF "RefreshToken" \in DOMAIN ar THEN ar
  ELSE [x \in DOMAIN ar \cup {"RefreshToken"} |->
          IF x = "RefreshToken" THEN tok.refresh_token ELSE ar[x]]

MigrateLegacyTokenExpired(data, t) ==
  LET ar == data.AuthenticationResult
      get(k, d) == IF k \in DOMAIN ar THEN ar[k] ELSE d
  IN [access_token |-> get("AccessToken", NoRT),
      id_token |-> get("IdToken", NoRT),
      refresh_token |-> get("RefreshToken", NoRT),
      token_type |-> get("TokenType", "Bearer"),
      expires_at |-> t]

\* _migrate_legacy_token, called at instant t: expires_at is the epoch
\* under expiry_time, else the epoch under expiry_date when that is an int
\* or a float, else datetime.now().
MigrateLegacyToken(data, t) ==
  LET ar == data.AuthenticationResult
      get(k, d) == IF k \in DOMAIN ar THEN ar[k] ELSE d
  IN [access_token |-> get("AccessToken", NoRT),
      id_token |-> get("IdToken", NoRT),
      refresh_token |-> get("RefreshToken", NoRT),
      token_type |-> get("TokenType", "Bearer"),
      expires_at |-> IF "expiry_time" \in DOMAIN data
                     THEN data.expiry_time
                     ELSE IF /\ "expiry_date" \in DOMAIN data
                             /\ data.expiry_date.py \in {"int", "float"}
                     THEN data.expiry_date.v
                     ELSE t]

AuthHeadersAccessToken(tok) ==
  [Authorization |-> <<tok.token_type, tok.access_token>>,
   ContentType |-> "application/json"]

\* get_auth_headers: the mapping built from a credential
AuthHeaders(tok) ==
  [Authorization |-> <<tok.token_type, tok.id_token>>,
   ContentType |-> "application/json"]

\* ------------------------------------------------- payloads (models.py)

\* The values of a JSON payload and of a dataclass field: None, a string, a
\* bool, an int, and a float (v holds the float's value in tenths).
PyNone == [py |-> "None"]
PyStr(x) == [py |-> "str", v |-> x]
PyBool(x) == [py |-> "bool", v |-> x]
PyInt(x) == [py |-> "int", v |-> x]
PyFloat(x) == [py |-> "float", v |-> x]

\* bool(x): None, 0, 0.0, "" and False are false.
Truthy(x) ==
  CASE x.py = "None" -> FALSE
    [] x.py = "str" -> x.v # ""
    [] x.py = "bool" -> x.v
    [] OTHER -> x.v # 0

\* The decimal strings the payloads carry, with their values.
Decimals == {<<"2019", 2019>>, <<"2022", 2022>>}

\* int(x) of an int or of a decimal string
IntOf(x) ==
  IF x.py = "int" THEN x
  ELSE PyInt((CHOOSE d \in Decimals : d[1] = x.v)[2])

\* dict.get(k, default), and dict.get(k), of a payload (a record)
Get(d, k, default) == IF k \in DOMAIN d THEN d[k] ELSE default
GetOrNone(d, k) == Get(d, k, PyNone)

\* The empty dict.
EmptyDict == [x \in {} |-> PyNone]

VehicleInfoFromDictSecondFirst(data) ==
  [vehicle_id |-> Get(data, "vehicle_id", Get(data, "id", PyStr(""))),
   device_key |-> Get(data, "device_key", PyStr("")),
   name |-> Get(data, "name", Get(data, "vehicle_name",
                                  PyStr("Unknown Vehicle"))),
   make |-> Get(data, "make", GetOrNone(data, "vehicle_make")),
   model |-> Get(data, "model", GetOrNone(data, "vehicle_model")),
   year |-> IF Truthy(GetOrNone(data, "year")) THEN IntOf(data.year)
            ELSE IF Truthy(GetOrNone(data, "vehicle_year"))
                 THEN IntOf(data.vehicle_year)
                 ELSE PyNone,
   color |-> GetOrNone(data, "color"),
   vin |-> GetOrNone(data, "vin")]

\* VehicleInfo.from_dict (raw_data, the payload itself, is left out)
VehicleInfoFromDict(data) ==
  [vehicle_id |-> Get(data, "id", Get(data, "vehicle_id", PyStr(""))),
   device_key |-> Get(data, "device_key", PyStr("")),
   name |-> Get(data, "vehicle_name", Get(data, "name",
                                          PyStr("Unknown Vehicle"))),
   make |-> Get(data, "vehicle_make", GetOrNone(data, "make")),
   model |-> Get(data, "vehicle_model", GetOrNone(data, "model")),
   year |-> IF Truthy(GetOrNone(data, "vehicle_year"))
            THEN IntOf(data.vehicle_year)
            ELSE IF Truthy(GetOrNone(data, "year")) THEN IntOf(data.year)
                 ELSE PyNone,
   color |-> GetOrNone(data, "color"),
   vin |-> GetOrNone(data, "vin")]

\* VehicleStatus.from_dict (location, last_updated and raw_data are left
\* out): is_running, is_locked, battery_voltage and interior_temperature
\* come from last_known_state.controller, odometer from
\* last_known_state.mileage; battery_percent, fuel_level and
\* exterior_temperature are always None.
VehicleStatusFromDict(data) ==
  LET lks == Get(data, "last_known_state", EmptyDict)
      controller == Get(lks, "controller", EmptyDict)
  IN [vehicle_id |-> Get(data, "id", Get(data, "vehicle_id", PyStr(""))),
      device_key |-> Get(data, "device_key", PyStr("")),
      is_running |-> Get(controller, "engine_on", PyBool(FALSE)),
      is_locked |-> Get(controller, "armed", PyBool(FALSE)),
      battery_voltage |-> GetOrNone(controller, "main_battery_voltage"),
      battery_percent |-> PyNone,
      odometer |-> GetOrNone(lks, "mileage"),
      fuel_level |-> PyNone,
      interior_temperature |-> GetOrNone(controller, "current_temperature"),
      exterior_temperature |-> PyNone]

\* The timestamp strings of the payloads: an ISO-8601 string with an
\* explicit UTC offset, the same instant with the "Z" suffix, and a string
\* that is no ISO-8601 timestamp.
TimestampStrings ==
  {"2024-01-01T00:00:00+00:00", "2024-01-01T00:00:00Z", "yesterday"}

\* The interpreters the library runs on: datetime.fromisoformat accepts the
\* "Z" suffix from Python 3.11 on and raises ValueError for it before.
Builds == {"3.10", "3.11"}

\* str.replace("Z", "+00:00")
ReplaceZ(s) ==
  IF s = "2024-01-01T00:00:00Z" THEN "2024-01-01T00:00:00+00:00" ELSE s

\* datetime.fromisoformat(s) returns a datetime (and does not raise
\* ValueError) on interpreter build.
ParsesIso(s, build) ==
  \/ s = "2024-01-01T00:00:00+00:00"
  \/ s = "2024-01-01T00:00:00Z" /\ build = "3.11"

\* The datetime fromisoformat returns for s: the instant, as its rendering
\* with an explicit offset.
DatetimeOf(s) == [py |-> "datetime", v |-> ReplaceZ(s)]

\* How a call ends: it returns x, or raises e.
Val(x) == [kind |-> "value", v |-> x]
Exc(e) == [kind |-> "raise", exc |-> e]

\* Location.from_dict (accuracy is left out): fromisoformat is applied to
\* the timestamp as it is, outside any try block.
LocationFromDict(data, build) ==
  IF "timestamp" \in DOMAIN data /\ ~ParsesIso(data.timestamp.v, build)
  THEN Exc("ValueError")
  ELSE Val([latitude |-> Get(data, "latitude", PyInt(0)),
            longitude |-> Get(data, "longitude", PyInt(0)),
            timestamp |-> IF "timestamp" \in DOMAIN data
                          THEN DatetimeOf(data.timestamp.v) ELSE PyNone])

\* VehicleStatus.from_dict, its location and last_updated fields: the
\* location comes from last_known_state's latitude and longitude or from
\* Location.from_dict(data["location"]); last_updated from
\* last_known_state.timestamp or, when that is falsy, data.last_updated,
\* with "Z" replaced, and None when fromisoformat raises.
StatusTimestamps(data, build) ==
  LET lks == Get(data, "last_known_state", EmptyDict)
      loc == IF {"latitude", "longitude"} \subseteq DOMAIN lks
             THEN Val([latitude |-> lks.latitude, longitude |-> lks.longitude,
                       timestamp |-> PyNone])
             ELSE IF "location" \in DOMAIN data
             THEN LocationFromDict(data.location, build)
             ELSE Val(PyNone)
      first == GetOrNone(lks, "timestamp")
      timestamp_str == IF Truthy(first) THEN first
                       ELSE GetOrNone(data, "last_updated")
  IN IF loc.kind = "raise" THEN loc
     ELSE Val([location |-> loc.v,
               last_updated |->
                 IF /\ Truthy(timestamp_str)
                    /\ ParsesIso(ReplaceZ(timestamp_str.v), build)
                 THEN DatetimeOf(ReplaceZ(timestamp_str.v)) ELSE PyNone])

\* CommandResponse.from_dict, its timestamp field: fromisoformat is applied
\* to the timestamp as it is, inside a try block.
CommandResponseTimestamp(data, build) ==
  Val([success |-> Get(data, "success", PyBool(FALSE)),
       timestamp |-> IF /\ "timestamp" \in DOMAIN data
                        /\ ParsesIso(data.timestamp.v, build)
                     THEN DatetimeOf(data.timestamp.v) ELSE PyNone])

\* ----------------------------------------------------------------- files

FileAbsent == [kind |-> "absent"]
FileCorrupt == [kind |-> "corrupt"]
JsonFile(d) == [kind |-> "json", data |-> d]

\* The token file while a saver has it open for writing: open(.., "w") has
\* truncated it and json.dump has not finished, so it does not parse.
FilePartial == [kind |-> "partial"]

\* filelock.FileLock(token.json.lock) held by no saver.  Its holders are
\* "mgr", this manager, and "ext", a saver of another process or another
\* manager instance on the same token path.
LockFileFree == "none"

\* The record the other saver writes.
ExtRecord ==
  ToDict([access_token |-> <<"xa", 0>>, id_token |-> <<"xi", 0>>,
          refresh_token |-> <<"xr", 0>>, token_type |-> "Bearer",
          expires_at |-> InitExpiry])

\* A token file that is a JSON document without one of the keys from_dict
\* subscripts (here refresh_token).
FileIncomplete ==
  JsonFile([access_token |-> <<"a", 0>>, id_token |-> <<"i", 0>>,
            token_type |-> "Bearer", expires_at |-> IsoFormat(InitExpiry)])

ExistsIfParsable(f) == f.kind = "json" /\ "refresh_token" \in DOMAIN f.data

\* _load_token: self.token_file.exists()
Exists(f) == f.kind # "absent"

\* _load_token: json.load and AuthToken.from_dict succeed on the file, that
\* is, it is a JSON document with the five keys from_dict subscripts.
Parsable(f) ==
  /\ f.kind = "json"
  /\ {"access_token", "id_token", "refresh_token", "token_type",
      "expires_at"} \subseteq DOMAIN f.data

\* The token file a previous run may have left.
InitTokenFiles ==
  {FileAbsent, FileCorrupt,
   JsonFile(ToDict([access_token |-> <<"a", 0>>, id_token |-> <<"i", 0>>,
                    refresh_token |-> <<"r", 0>>, token_type |-> "Bearer",
                    expires_at |-> InitExpiry]))}

\* The legacy file an older version may have left.
InitLegacyFiles ==
  {FileAbsent, FileCorrupt,
   JsonFile([AuthenticationResult |->
               [AccessToken |-> <<"la", 0>>, IdToken |-> <<"li", 0>>,
                RefreshToken |-> <<"lr", 0>>, TokenType |-> "Bearer"],
             expiry_time |-> InitExpiry]),
   JsonFile([AuthenticationResult |->
               [AccessToken |-> <<"la", 0>>, IdToken |-> <<"li", 0>>]])}

\* ----------------------------------------------------------------- state

VARIABLES
  token,       \* AuthenticationManager._token
  lock,        \* holder of AuthenticationManager._lock, 0 when free
  tokenFile,   \* content of token_dir / token.json
  legacyFile,  \* content of ./drone_mobile_token.txt
  now,         \* datetime.now()
  serial,      \* number of 200 responses the identity provider has sent
  lastRT,      \* RefreshToken of the latest provider response that had one
               \* (NoRT while the provider has sent none)
  th,          \* per thread: the position and locals of its current call
  invalidated, \* invalidate_token has returned and no authenticate() has
               \* entered the manager lock since
  fileLock,    \* holder of the lock file token.json.lock
  ext,         \* position of the other saver in its _save_token
  saved,       \* the credential this manager's last _save_token wrote, while
               \* no one else has written or removed the token file since
  objs,        \* the Vehicle objects get_vehicles has built, in order; each
               \* with its info and its _cached_status
  vehicles,    \* DroneMobileClient._vehicles: for every vehicle id the
               \* position in objs of the object registered under it, or 0
  arg,         \* the argument given to a function of models.py
  out          \* what the function returned

\* The state of the client's vehicle objects, and of a call of a function
\* of models.py.
fleet == <<objs, vehicles>>
pure == <<arg, out>>

vars ==
  <<token, lock, tokenFile, legacyFile, now, serial, lastRT, th, invalidated,
    fileLock, ext, saved, objs, vehicles, arg, out>>

AuthOps == {"authenticate", "get_auth_headers"}
ClientOps == {"get_vehicles", "get_vehicle_status", "send_command"}
Ops == AuthOps \cup ClientOps \cup {"invalidate_token"}

\* The vehicle ids of the account's payloads and of the callers' lookups.
VehicleIds == {PyStr("v1"), PyStr("v2"), PyStr("v9"), PyStr("")}

\* self._vehicles = {}
NoVehicles == [id \in VehicleIds |-> 0]

\* No function of models.py has been called.
NoCall == [kind |-> "none"]

NoResult == [kind |-> "none"]
NoHeaders == [absent |-> TRUE]
NoAR == [absent |-> TRUE]

\* A thread outside any call.  log: the identity-provider requests of the
\* current authenticate() call, in order, with their responses.  entryTok,
\* enteredAt: _token and the clock when the call entered the manager lock.
\* loaded, src: what _load_token returned, and the file it read it from.
\* writes: how many times this call wrote the token file.  lastSave: how its
\* last _save_token ended.  waitedFor: the thread that entered the lock
\* while this one was waiting for it.  afterInv: the call is the first
\* authenticate() after an invalidate_token().  cmd: the command given to
\* send_command.  resp: the responses of the vehicle API to the operation,
\* in order, each with the kind of body it came with.  outer: the method
\* that called the client operation, get_vehicle or Vehicle.get_status.
\* vehicle_id: the argument of get_vehicle.  self: the position in objs of
\* the Vehicle whose get_status runs.  use_cache: its argument.  held: the
\* object's _cached_status when get_status was called.  hit: the call found
\* what it looked for (a registered vehicle, a cached status) when it was
\* made.  forcedTok: what the operation's last
\* authenticate(force_refresh=True) returned.  data: response.json() of the
\* 200 it received.  ret: the positions
\* in objs of the Vehicle objects get_vehicles returned.
IdleThread ==
  [pc |-> "idle", op |-> "none", force |-> FALSE, inTry |-> FALSE,
   phase |-> "none", log |-> <<>>, result |-> NoResult,
   saveTok |-> NoToken, cont |-> "none", http |-> 0, forced |-> 0,
   hdr |-> NoHeaders, entryTok |-> NoToken, enteredAt |-> 0,
   loaded |-> NoToken, src |-> "none", writes |-> 0,
   lastSave |-> "none", waitedFor |-> 0, afterInv |-> FALSE,
   cmd |-> "none", resp |-> <<>>, outer |-> "none", vehicle_id |-> PyNone,
   self |-> 0, use_cache |-> FALSE, held |-> PyNone, hit |-> FALSE,
   data |-> NoCall, ret |-> <<>>, forcedTok |-> NoToken]

\* The positions at which the thread is inside `with self._lock`.
Section == {"save", "save_locked", "save_writing", "pw_wait", "rf_wait"}

Init ==
  /\ token = NoToken
  /\ lock = 0
  /\ tokenFile \in InitTokenFiles
  /\ legacyFile \in InitLegacyFiles
  /\ now = 0
  /\ serial = 0
  /\ lastRT = NoRT
  /\ th = [t \in Threads |-> IdleThread]
  /\ invalidated = FALSE
  /\ fileLock = LockFileFree
  /\ ext = "idle"
  /\ saved = NoToken
  /\ objs = <<>>
  /\ vehicles = NoVehicles
  /\ arg = NoCall
  /\ out = NoCall

\* ------------------------------------------- steps of one call (pure part)

\* The call reaches `with self._lock` of authenticate(force_refresh = f).
StartAuth(r, f) ==
  [r EXCEPT !.pc = "acquire", !.force = f, !.inTry = FALSE, !.log = <<>>,
            !.saveTok = NoToken, !.cont = "none", !.entryTok = NoToken,
            !.enteredAt = 0, !.loaded = NoToken, !.src = "none",
            !.writes = 0, !.lastSave = "none", !.afterInv = FALSE]

\* The call ends: it returned a value or raised.
Exit(r, res) == [r EXCEPT !.pc = "done", !.result = res]

Raised(exc) == [kind |-> "raise", exc |-> exc]

\* requests.post of the password grant (_authenticate_new)
SendPassword(r) ==
  [r EXCEPT !.pc = "pw_wait",
            !.log = Append(@, [grant |-> "password", rt |-> NoRT,
                               status |-> "pending", ar |-> NoAR])]

\* requests.post of the refresh grant (_refresh_token)
SendRefresh(r, rt) ==
  [r EXCEPT !.pc = "rf_wait",
            !.log = Append(@, [grant |-> "refresh", rt |-> rt,
                               status |-> "pending", ar |-> NoAR])]

\* The response to the request in flight is recorded.
Answered(r, status, ar) ==
  [r EXCEPT !.log[Len(r.log)].status = status, !.log[Len(r.log)].ar = ar]

\* authenticate: an exception raised inside the try block of the load is
\* caught by `except Exception`.
Caught(r) == r.inTry

RaiseRetry(r, exc) == SendPassword([r EXCEPT !.inTry = FALSE])

\* An exception is raised inside authenticate(): caught by the handler of
\* the load (and the code goes on to _authenticate_new), or it leaves the
\* call.
Raise(r, exc) ==
  IF Caught(r) THEN SendPassword([r EXCEPT !.inTry = FALSE])
  ELSE Exit(r, Raised(exc))

\* authenticate() returns tok to get_auth_headers, to a client operation
\* (which then sends its HTTP request, or calls itself again after the
\* forced refresh), or to the caller.
Returned(r, tok) ==
  CASE r.op = "authenticate" -> Exit(r, [kind |-> "token", token |-> tok])
    [] r.op = "get_auth_headers" ->
         Exit(r, [kind |-> "headers", headers |-> AuthHeaders(tok),
                  token |-> tok])
    [] r.op \in ClientOps /\ r.phase = "headers" ->
         [r EXCEPT !.pc = "http_wait", !.http = @ + 1,
                   !.hdr = AuthHeaders(tok)]
    [] r.op \in ClientOps /\ r.phase = "forced" ->
         StartAuth([r EXCEPT !.phase = "headers", !.forcedTok = tok], FALSE)

UseCacheIgnoringForce(f, tok, t) == tok # NoToken /\ ~IsExpired(tok, t)

UseCacheNever(f, tok, t) == FALSE

\* authenticate: `not force_refresh and self._token and not expired`
UseCache(f, tok, t) == ~f /\ tok # NoToken /\ ~IsExpired(tok, t)

LoadDecisionNoRefresh(x, t) ==
  IF x # NoToken /\ ~IsExpired(x, t) THEN "return" ELSE "password"

\* authenticate after _load_token returned x: return it, refresh it, or
\* authenticate anew.  _refresh_token raises TokenExpiredError for an empty
\* refresh token, which the handler of the load catches.
LoadDecision(x, t) ==
  IF x # NoToken /\ ~IsExpired(x, t) THEN "return"
  ELSE IF x # NoToken /\ x.refresh_token # NoRT THEN "refresh"
  ELSE "password"

AfterLoadHeld(r, x, t) ==
  LET r1 == [r EXCEPT !.loaded = x]
      d == LoadDecision(x, t)
  IN CASE d = "return" -> Returned(r1, x)
       [] d = "refresh" ->
            SendRefresh([r1 EXCEPT !.inTry = TRUE],
                        IF r.entryTok # NoToken THEN r.entryTok.refresh_token
                        ELSE x.refresh_token)
       [] d = "password" -> SendPassword(r1)

\* authenticate after `self._token = self._load_token()` yielded x
AfterLoad(r, x, t) ==
  LET r1 == [r EXCEPT !.loaded = x]
      d == LoadDecision(x, t)
  IN CASE d = "return" -> Returned(r1, x)
       [] d = "refresh" ->
            SendRefresh([r1 EXCEPT !.inTry = TRUE], x.refresh_token)
       [] d = "password" -> SendPassword(r1)

LockFreeAlways == TRUE

\* threading.Lock: `with self._lock` enters only when no thread holds it
LockFree == lock = 0

LockAfterKept(t, r) == IF r.pc \in Section \/ lock = t THEN t ELSE lock

\* The manager lock after thread t moved to record r.
LockAfter(t, r) == IF r.pc \in Section THEN t ELSE IF lock = t THEN 0 ELSE lock

\* --------------------------------------------------------------- actions

\* th after thread t moved to record r; with entering = TRUE, every thread
\* waiting for the lock notes that t entered ahead of it.
Moved(t, r, entering) ==
  [u \in Threads |->
     IF u = t THEN r
     ELSE IF entering /\ th[u].pc = "acquire" /\ th[u].waitedFor = 0
          THEN [th[u] EXCEPT !.waitedFor = t]
          ELSE th[u]]

\* A caller starts an operation of the manager or of the client.
Call(t, o, f) ==
  /\ th[t].pc = "idle"
  /\ th' = Moved(t, StartAuth([IdleThread EXCEPT
                                 !.op = o,
                                 !.phase = IF o \in ClientOps THEN "headers"
                                           ELSE "none"], f), FALSE)
  /\ UNCHANGED <<token, lock, tokenFile, legacyFile, now, serial, lastRT,
               invalidated, fileLock, ext>>
  /\ UNCHANGED <<saved, fleet, pure>>

\* invalidate_token: the whole body, under the lock.
Invalidate(t) ==
  /\ th[t].pc = "acquire"
  /\ th[t].op = "invalidate_token"
  /\ LockFree
  /\ token' = NoToken
  /\ tokenFile' = FileAbsent
  /\ saved' = NoToken
  /\ th' = Moved(t, Exit([th[t] EXCEPT !.entryTok = token,
                                       !.enteredAt = now],
                         [kind |-> "value"]), TRUE)
  /\ lock' = LockAfter(t, th'[t])
  /\ invalidated' = TRUE
  /\ UNCHANGED <<legacyFile, now, serial, lastRT, fileLock, ext>>
  /\ UNCHANGED <<fleet, pure>>

\* authenticate: the lock is taken, the cached credential is returned or
\* _load_token runs up to its first file write (the save of a migrated
\* legacy record), and the code goes on to the first request.
Enter(t) ==
  /\ th[t].pc = "acquire"
  /\ th[t].op # "invalidate_token"
  /\ LockFree
  /\ LET r == [th[t] EXCEPT !.entryTok = token, !.enteredAt = now,
                            !.afterInv = invalidated]
     IN IF UseCache(r.force, token, now)
        THEN /\ th' = Moved(t, Returned(r, token), TRUE)
             /\ token' = token
        ELSE IF r.force
        THEN /\ th' = Moved(t, SendPassword(r), TRUE)
             /\ token' = token
        ELSE IF Parsable(tokenFile)
        THEN /\ th' = Moved(t, AfterLoad([r EXCEPT !.src = "primary"],
                                         FromDict(tokenFile.data), now),
                            TRUE)
             /\ token' = FromDict(tokenFile.data)
        ELSE IF ~Exists(tokenFile) /\ legacyFile.kind = "json"
        THEN /\ th' = Moved(t, [r EXCEPT
                                  !.pc = "save", !.cont = "migrate",
                                  !.src = "legacy",
                                  !.saveTok =
                                     MigrateLegacyToken(legacyFile.data, now)],
                            TRUE)
             /\ token' = token
        ELSE /\ th' = Moved(t, AfterLoad([r EXCEPT
                                            !.src = IF tokenFile = FilePartial
                                                    THEN "partial" ELSE @],
                                         NoToken, now), TRUE)
             /\ token' = NoToken
  /\ lock' = LockAfter(t, th'[t])
  /\ invalidated' = FALSE
  /\ UNCHANGED <<tokenFile, legacyFile, now, serial, lastRT, fileLock, ext>>
  /\ UNCHANGED <<saved, fleet, pure>>

SaveOutcomes == {"ok", "timeout", "ioerror"}

LegacyKept(f) == f

\* _load_token: legacy_path.unlink(), once _save_token has returned
LegacyUnlinked(f) == FileAbsent

\* _save_token: the file is written under the file lock ("ok"), the file
\* lock is not acquired within its timeout and the save is abandoned
\* ("timeout"), or opening the file for writing fails ("ioerror").  Then the
\* caller of _save_token goes on: _load_token unlinks the legacy file and
\* returns the migrated token (or, on an exception, None), and
\* _authenticate_new and _refresh_token return self._token.
SaveRaisesOnTimeout(outcome) == outcome \in {"timeout", "ioerror"}

\* _save_token catches filelock.Timeout only: an OSError of open() or of
\* json.dump leaves it.
SaveRaises(outcome) == outcome = "ioerror"

\* The effects of a _save_token that ended with outcome, and of what its
\* caller does next.
AfterSave(t, outcome) ==
  /\ LET r == [th[t] EXCEPT
                 !.lastSave = outcome,
                 !.writes = IF outcome = "ok" THEN @ + 1 ELSE @]
     IN /\ tokenFile' = IF outcome = "ok"
                        THEN JsonFile(ToDict(r.saveTok)) ELSE tokenFile
        /\ saved' = IF outcome = "ok" THEN r.saveTok ELSE saved
        /\ IF r.cont = "migrate"
           THEN IF SaveRaises(outcome)
                THEN /\ th' = Moved(t, AfterLoad(r, NoToken, now), FALSE)
                     /\ token' = NoToken
                     /\ legacyFile' = legacyFile
                ELSE /\ th' = Moved(t, AfterLoad(r, r.saveTok, now), FALSE)
                     /\ token' = r.saveTok
                     /\ legacyFile' = LegacyUnlinked(legacyFile)
           ELSE /\ th' = Moved(t, IF SaveRaises(outcome)
                                  THEN Raise(r, "OSError")
                                  ELSE Returned(r, token), FALSE)
                /\ token' = token
                /\ legacyFile' = legacyFile
  /\ lock' = LockAfter(t, th'[t])

SaveToken(t, outcome) ==
  /\ th[t].pc = "save"
  /\ AfterSave(t, outcome)
  /\ UNCHANGED <<now, serial, lastRT, invalidated, fileLock, ext>>
  /\ UNCHANGED <<fleet, pure>>

\* The identity provider answers the password grant with 200.
PasswordOk(t, e) ==
  /\ th[t].pc = "pw_wait"
  /\ serial < MaxSerial
  /\ LET ar == AuthResult(serial + 1, e, TRUE)
         tok == ParseAuthResponse(ar, now)
     IN /\ token' = tok
        /\ lastRT' = ar.RefreshToken
        /\ th' = Moved(t, [Answered(th[t], "200", ar) EXCEPT
                             !.pc = "save", !.cont = "grant",
                             !.saveTok = tok], FALSE)
  /\ serial' = serial + 1
  /\ lock' = LockAfter(t, th'[t])
  /\ UNCHANGED <<tokenFile, legacyFile, now, invalidated, fileLock, ext>>
  /\ UNCHANGED <<saved, fleet, pure>>

PasswordFailures == {"400na", "400", "500", "neterr"}

\* The password grant fails: a transport error, 400 with
\* NotAuthorizedException, another 400, or another status.
PasswordFail(t, status) ==
  /\ th[t].pc = "pw_wait"
  /\ th' = Moved(t, Raise(Answered(th[t], status, NoAR),
                          CASE status = "neterr" -> "NetworkError"
                            [] status = "400na" -> "InvalidCredentialsError"
                            [] OTHER -> "AuthenticationError"), FALSE)
  /\ lock' = LockAfter(t, th'[t])
  /\ UNCHANGED <<token, tokenFile, legacyFile, now, serial, lastRT,
               invalidated, fileLock, ext>>
  /\ UNCHANGED <<saved, fleet, pure>>

\* The identity provider answers the refresh grant with 200, with or
\* without a new RefreshToken.
RefreshOk(t, e, withRT) ==
  /\ th[t].pc = "rf_wait"
  /\ serial < MaxSerial
  /\ LET ar == AuthResult(serial + 1, e, withRT)
         tok == ParseAuthResponse(RefreshCarry(ar, token), now)
     IN /\ token' = tok
        /\ lastRT' = IF withRT THEN ar.RefreshToken ELSE lastRT
        /\ th' = Moved(t, [Answered(th[t], "200", ar) EXCEPT
                             !.pc = "save", !.cont = "grant",
                             !.saveTok = tok], FALSE)
  /\ serial' = serial + 1
  /\ lock' = LockAfter(t, th'[t])
  /\ UNCHANGED <<tokenFile, legacyFile, now, invalidated, fileLock, ext>>
  /\ UNCHANGED <<saved, fleet, pure>>

\* The refresh grant is answered 400 or 401: _refresh_token calls
\* _authenticate_new.
RefreshRejected(t, status) ==
  /\ th[t].pc = "rf_wait"
  /\ th' = Moved(t, SendPassword(Answered(th[t], status, NoAR)), FALSE)
  /\ lock' = LockAfter(t, th'[t])
  /\ UNCHANGED <<token, tokenFile, legacyFile, now, serial, lastRT,
               invalidated, fileLock, ext>>
  /\ UNCHANGED <<saved, fleet, pure>>

\* The refresh grant fails with a transport error or another status.
RefreshFail(t, status) ==
  /\ th[t].pc = "rf_wait"
  /\ th' = Moved(t, Raise(Answered(th[t], status, NoAR),
                          IF status = "neterr" THEN "NetworkError"
                          ELSE "AuthenticationError"), FALSE)
  /\ lock' = LockAfter(t, th'[t])
  /\ UNCHANGED <<token, tokenFile, legacyFile, now, serial, lastRT,
               invalidated, fileLock, ext>>
  /\ UNCHANGED <<saved, fleet, pure>>

\* The 200 bodies the identity provider may send that lack the expected
\* shape: a document without AuthenticationResult, and one whose
\* AuthenticationResult lacks a token or ExpiresIn.
MalformedShapes == {"no_result", "no_field"}

\* The password grant is answered 200 with such a body: the subscript in
\* _parse_auth_response raises KeyError before self._token is assigned and
\* before _save_token is called.
PasswordMalformed(t, shape) ==
  /\ th[t].pc = "pw_wait"
  /\ th' = Moved(t, Raise(Answered(th[t], "200", [malformed |-> shape]),
                          "KeyError"), FALSE)
  /\ lock' = LockAfter(t, th'[t])
  /\ UNCHANGED <<token, tokenFile, legacyFile, now, serial, lastRT,
               invalidated, fileLock, ext>>
  /\ UNCHANGED <<saved, fleet, pure>>

\* The refresh grant is answered 200 with such a body: the subscript in
\* _refresh_token or in _parse_auth_response raises KeyError.
RefreshMalformed(t, shape) ==
  /\ th[t].pc = "rf_wait"
  /\ th' = Moved(t, Raise(Answered(th[t], "200", [malformed |-> shape]),
                          "KeyError"), FALSE)
  /\ lock' = LockAfter(t, th'[t])
  /\ UNCHANGED <<token, tokenFile, legacyFile, now, serial, lastRT,
               invalidated, fileLock, ext>>
  /\ UNCHANGED <<saved, fleet, pure>>

\* const.AVAILABLE_COMMANDS
AVAILABLE_COMMANDS ==
  {"DEVICE_STATUS", "REMOTE_START", "REMOTE_STOP", "ARM", "DISARM", "TRUNK",
   "PANIC_ON", "PANIC_OFF", "REMOTE_AUX1", "REMOTE_AUX2", "LOCATION"}

\* The commands callers give: one of the set, one of the set in lower
\* case, and one unknown.
CommandInputs == {"REMOTE_START", "remote_start", "SELF_DESTRUCT"}

ValidCommandAny(c) == TRUE

\* send_command: `command not in AVAILABLE_COMMANDS` raises
ValidCommand(c) == c \in AVAILABLE_COMMANDS

\* A caller calls send_command(device_key, c): an unknown command raises
\* InvalidCommandError at once, a known one goes on to get_auth_headers.
SendCommand(t, c) ==
  /\ th[t].pc = "idle"
  /\ LET r == [IdleThread EXCEPT !.op = "send_command", !.cmd = c]
     IN th' = Moved(t, IF ValidCommand(c)
                       THEN StartAuth([r EXCEPT !.phase = "headers"], FALSE)
                       ELSE Exit(r, Raised("InvalidCommandError")), FALSE)
  /\ UNCHANGED <<token, lock, tokenFile, legacyFile, now, serial, lastRT,
               invalidated, fileLock, ext>>
  /\ UNCHANGED <<saved, fleet, pure>>

\* The statuses a client operation does not retry, and the bodies a
\* response comes with: a JSON document, nothing, or text that is not JSON.
HttpFailures == {"404", "424", "429", "500", "neterr"}
Bodies == {"json", "empty", "text"}

\* The body of a 424: a JSON document whose "parsed" object has a detail.
\* (The body "json" of a 424 is a document whose "parsed" object has none.)
DetailBody == "json_detail"
JsonBodies == {"json", DetailBody}

\* The responses that end an operation with an exception: a transport
\* failure (no response, no body), a status other than 200 and 401 with any
\* body, and a 200 whose body is not a JSON document.
FailingResponses ==
  {[status |-> "neterr", body |-> "none"]}
    \cup {[status |-> x, body |-> b] : x \in HttpFailures \ {"neterr"},
                                       b \in Bodies}
    \cup {[status |-> "200", body |-> b] : b \in Bodies \ {"json"}}
    \cup {[status |-> "424", body |-> DetailBody]}

\* An exception of the library that carries the response's status code.
RaisedStatus(exc, status) == [kind |-> "raise", exc |-> exc, status |-> status]

\* response.json() on a body of kind b: requests raises JSONDecodeError
\* unless the body is a JSON document.
JsonOr(b, result) ==
  IF b \in JsonBodies THEN result ELSE Raised("JSONDecodeError")

\* response.json().get("parsed", {}) of a 424 body that is a JSON document
Parsed(b) ==
  IF b = DetailBody THEN [detail |-> "Vehicle not responding"]
  ELSE [code |-> "E424"]

CommandFailedGeneric(status, b) == RaisedStatus("APIError", status)

\* send_command on a 424 whose body parsed: CommandFailedError with the
\* detail (or "Command failed") in its message, the status code and the
\* parsed object.
CommandFailed(status, b) ==
  LET error_data == Parsed(b)
  IN [kind |-> "raise", exc |-> "CommandFailedError", status |-> status,
      detail |-> IF "detail" \in DOMAIN error_data THEN error_data.detail
                 ELSE "Command failed",
      response_data |-> error_data]

\* How a client operation o ends on a response it does not retry: the
\* value it returns or the exception it raises.  The 200, 424 and 429
\* branches call response.json() unconditionally, the last branch only for
\* a non-empty body.
Classify(o, status, body) ==
  CASE status = "neterr" -> Raised("NetworkError")
    [] status = "200" -> JsonOr(body, [kind |-> "value", status |-> "200"])
    [] status = "404" /\ o = "get_vehicle_status" ->
         Raised("VehicleNotFoundError")
    [] status = "424" /\ o = "send_command" ->
         JsonOr(body, CommandFailed(status, body))
    [] status = "429" -> JsonOr(body, RaisedStatus("RateLimitError", status))
    [] OTHER -> IF body = "empty" THEN RaisedStatus("APIError", status)
                ELSE JsonOr(body, RaisedStatus("APIError", status))

\* The operation of record r has received a response.
Received(r, status, body) ==
  [r EXCEPT !.resp = Append(@, [status |-> status, body |-> body])]

\* The vehicle API answers 200 with a JSON body: the operation returns the
\* parsed body.  (For get_vehicles the body has no results: the account has
\* no vehicle.)
HttpOk(t) ==
  /\ th[t].pc = "http_wait"
  /\ th[t].outer = "none"
  /\ th' = Moved(t, Exit(Received(th[t], "200", "json"),
                         Classify(th[t].op, "200", "json")), FALSE)
  /\ UNCHANGED <<token, lock, tokenFile, legacyFile, now, serial, lastRT,
               invalidated, fileLock, ext>>
  /\ UNCHANGED <<saved, fleet, pure>>

UnauthorizedNoRefresh(r) == StartAuth([r EXCEPT !.phase = "headers"], FALSE)

\* A client operation on a 401: authenticate(force_refresh=True), after
\* which the operation calls itself.
Unauthorized(r) ==
  StartAuth([r EXCEPT !.phase = "forced", !.forced = @ + 1], TRUE)

\* The vehicle API answers 401.
HttpUnauthorized(t) ==
  /\ th[t].pc = "http_wait"
  /\ th[t].http < MaxHttp
  /\ th' = Moved(t, Unauthorized(Received(th[t], "401", "empty")), FALSE)
  /\ UNCHANGED <<token, lock, tokenFile, legacyFile, now, serial, lastRT,
               invalidated, fileLock, ext>>
  /\ UNCHANGED <<saved, fleet, pure>>

\* Any other outcome of the HTTP call ends the operation.
HttpFail(t, status, body) ==
  /\ th[t].pc = "http_wait"
  /\ th' = Moved(t, Exit(Received(th[t], status, body),
                         Classify(th[t].op, status, body)), FALSE)
  /\ UNCHANGED <<token, lock, tokenFile, legacyFile, now, serial, lastRT,
               invalidated, fileLock, ext>>
  /\ UNCHANGED <<saved, fleet, pure>>

\* ------------------------------------------ vehicle objects (vehicle.py)

\* At most MaxObjects Vehicle objects are built in a run.
MaxObjects == 3

\* Vehicle.__init__
Vehicle(info) == [info |-> info, cached_status |-> PyNone]

\* The entries of the account's vehicle list, one naming its fields
\* id/vehicle_name and one vehicle_id/name, and the lists the API answers
\* with (the ids of one list are distinct).
EntryV1 ==
  [id |-> PyStr("v1"), device_key |-> PyStr("k1"),
   vehicle_name |-> PyStr("Car")]
EntryV2 ==
  [vehicle_id |-> PyStr("v2"), device_key |-> PyStr("k2"),
   name |-> PyStr("Van")]
FleetLists == {<<>>, <<EntryV1>>, <<EntryV1, EntryV2>>}

\* The status reports the API answers with.
StatusPayloads ==
  {[id |-> PyStr("v1"), device_key |-> PyStr("k1"),
    last_known_state |->
      [controller |-> [engine_on |-> PyBool(b), armed |-> PyBool(TRUE)],
       mileage |-> PyFloat(150005)]] : b \in BOOLEAN}

\* The ids callers look up: two of the account (one of them missing from
\* the shorter list), and one it does not have.
LookupIds == {PyStr("v1"), PyStr("v2"), PyStr("v9")}

RegisteredNever(id) == FALSE

\* get_vehicle: `vehicle_id in self._vehicles`
Registered(id) == vehicles[id] # 0

\* The positions in results of the entries whose vehicle has the id.
Matches(results, id) ==
  {i \in 1..Len(results) : VehicleInfoFromDict(results[i]).vehicle_id = id}

Least(S) == CHOOSE i \in S : \A j \in S : i <= j
Greatest(S) == CHOOSE i \in S : \A j \in S : i >= j

\* get_vehicles on a 200: objs and self._vehicles after the loop over
\* results has built one Vehicle per entry and registered it under its id.
ObjsAfter(results) ==
  objs \o [i \in 1..Len(results) |->
            Vehicle(VehicleInfoFromDict(results[i]))]
VehiclesAfterCleared(results) ==
  [id \in VehicleIds |->
     IF Matches(results, id) = {} THEN 0
     ELSE Len(objs) + Greatest(Matches(results, id))]

VehiclesAfter(results) ==
  [id \in VehicleIds |->
     IF Matches(results, id) = {} THEN vehicles[id]
     ELSE Len(objs) + Greatest(Matches(results, id))]

\* get_vehicle after get_vehicles returned the vehicles of results: the
\* first one with the id, or VehicleNotFoundError.
Lookup(results, id) ==
  IF Matches(results, id) = {} THEN Raised("VehicleNotFoundError")
  ELSE [kind |-> "vehicle", vehicle |-> Len(objs) + Least(Matches(results, id))]

\* A caller calls get_vehicle(id): a registered vehicle is returned at
\* once, otherwise get_vehicles() is called.
GetVehicle(t, id) ==
  /\ th[t].pc = "idle"
  /\ LET r == [IdleThread EXCEPT !.outer = "get_vehicle", !.vehicle_id = id,
                                 !.hit = vehicles[id] # 0]
     IN th' = Moved(t, IF Registered(id)
                       THEN Exit([r EXCEPT !.op = "get_vehicle"],
                                 [kind |-> "vehicle", vehicle |-> vehicles[id]])
                       ELSE StartAuth([r EXCEPT !.op = "get_vehicles",
                                                !.phase = "headers"], FALSE),
                    FALSE)
  /\ UNCHANGED <<token, lock, tokenFile, legacyFile, now, serial, lastRT,
               invalidated, fileLock, ext>>
  /\ UNCHANGED <<saved, fleet, pure>>

\* get_vehicles receives 200 with a list of vehicles.
HttpVehicles(t, results) ==
  /\ th[t].pc = "http_wait"
  /\ th[t].op = "get_vehicles"
  /\ Len(objs) + Len(results) <= MaxObjects
  /\ objs' = ObjsAfter(results)
  /\ vehicles' = VehiclesAfter(results)
  /\ LET r == [Received(th[t], "200", "json") EXCEPT
                 !.data = results,
                 !.ret = [i \in 1..Len(results) |-> Len(objs) + i]]
     IN th' = Moved(t, Exit(r, IF r.outer = "get_vehicle"
                               THEN Lookup(results, r.vehicle_id)
                               ELSE Classify(r.op, "200", "json")), FALSE)
  /\ UNCHANGED <<token, lock, tokenFile, legacyFile, now, serial, lastRT,
               invalidated, fileLock, ext>>
  /\ UNCHANGED <<saved, pure>>

UseCachedAlways(use_cache, cached_status) == cached_status # PyNone

\* Vehicle.get_status: `use_cache and self._cached_status` (a VehicleStatus
\* object is true)
UseCached(use_cache, cached_status) == use_cache /\ cached_status # PyNone

\* A caller calls get_status(use_cache) on the Vehicle at position k: the
\* cached status is returned, or client.get_vehicle_status is called.
GetStatus(t, k, use_cache) ==
  /\ th[t].pc = "idle"
  /\ k \in 1..Len(objs)
  /\ LET r == [IdleThread EXCEPT
                 !.outer = "get_status", !.self = k,
                 !.use_cache = use_cache,
                 !.held = objs[k].cached_status,
                 !.hit = use_cache /\ objs[k].cached_status # PyNone]
     IN th' = Moved(t, IF UseCached(use_cache, objs[k].cached_status)
                       THEN Exit([r EXCEPT !.op = "get_status"],
                                 [kind |-> "status",
                                  status |-> objs[k].cached_status])
                       ELSE StartAuth([r EXCEPT !.op = "get_vehicle_status",
                                                !.phase = "headers"], FALSE),
                    FALSE)
  /\ UNCHANGED <<token, lock, tokenFile, legacyFile, now, serial, lastRT,
               invalidated, fileLock, ext>>
  /\ UNCHANGED <<saved, fleet, pure>>

\* get_vehicle_status, called by get_status, receives 200 with a status
\* report: the parsed status is cached in the Vehicle and returned.
HttpStatus(t, payload) ==
  /\ th[t].pc = "http_wait"
  /\ th[t].op = "get_vehicle_status"
  /\ th[t].outer = "get_status"
  /\ LET status == VehicleStatusFromDict(payload)
     IN /\ objs' = [objs EXCEPT ![th[t].self].cached_status = status]
        /\ th' = Moved(t, Exit([Received(th[t], "200", "json") EXCEPT
                                  !.data = payload],
                               [kind |-> "status", status |-> status]), FALSE)
  /\ UNCHANGED <<token, lock, tokenFile, legacyFile, now, serial, lastRT,
               invalidated, fileLock, ext>>
  /\ UNCHANGED <<saved, vehicles, pure>>

\* The caller has taken the result of its call.
Finish(t) ==
  /\ th[t].pc = "done"
  /\ th' = [u \in Threads |->
              IF u = t THEN IdleThread
              ELSE IF th[u].waitedFor = t THEN [th[u] EXCEPT !.waitedFor = 0]
              ELSE th[u]]
  /\ UNCHANGED <<token, lock, tokenFile, legacyFile, now, serial, lastRT,
               invalidated, fileLock, ext>>
  /\ UNCHANGED <<saved, fleet, pure>>

\* Time passes.
Tick ==
  /\ now < MaxTicks * TickLen
  /\ now' = now + TickLen
  /\ UNCHANGED <<token, lock, tokenFile, legacyFile, serial, lastRT, th,
               invalidated, fileLock, ext>>
  /\ UNCHANGED <<saved, fleet, pure>>

\* One caller (thread 1) uses the manager: authenticate, get_auth_headers
\* and invalidate_token, one call after the other, against every answer of
\* the identity provider and every outcome of a save.
Caller == CHOOSE t \in Threads : \A u \in Threads : t <= u

Next ==
  \/ \E o \in AuthOps \cup {"invalidate_token"} : Call(Caller, o, FALSE)
  \/ Call(Caller, "authenticate", TRUE)
  \/ Invalidate(Caller)
  \/ Enter(Caller)
  \/ \E outcome \in SaveOutcomes : SaveToken(Caller, outcome)
  \/ \E e \in ExpiresInSet : PasswordOk(Caller, e)
  \/ \E s \in PasswordFailures : PasswordFail(Caller, s)
  \/ \E e \in ExpiresInSet, w \in BOOLEAN : RefreshOk(Caller, e, w)
  \/ \E s \in {"400", "401"} : RefreshRejected(Caller, s)
  \/ \E s \in {"500", "neterr"} : RefreshFail(Caller, s)
  \/ Finish(Caller)
  \/ Tick

Spec == Init /\ [][Next]_vars

\* One caller authenticates from a start without a primary record, or with
\* one that cannot be parsed, next to each kind of legacy file: one with
\* expiry_time, one with a numeric expiry_date, one with an expiry_date
\* that is a string, one with no expiry and no refresh token, an unparsable
\* one, or none.
LegacyFiles ==
  LET full == [AccessToken |-> <<"la", 0>>, IdToken |-> <<"li", 0>>,
               RefreshToken |-> <<"lr", 0>>, TokenType |-> "Bearer"]
  IN InitLegacyFiles \cup
       {JsonFile([AuthenticationResult |-> full,
                  expiry_date |-> [py |-> "int", v |-> InitExpiry]]),
        JsonFile([AuthenticationResult |-> full,
                  expiry_date |-> [py |-> "str", v |-> "2020-01-01"]])}

InitLegacy ==
  /\ token = NoToken
  /\ lock = 0
  /\ tokenFile \in {FileAbsent, FileCorrupt}
  /\ legacyFile \in LegacyFiles
  /\ now = 0
  /\ serial = 0
  /\ lastRT = NoRT
  /\ th = [t \in Threads |-> IdleThread]
  /\ invalidated = FALSE
  /\ fileLock = LockFileFree
  /\ ext = "idle"
  /\ saved = NoToken
  /\ objs = <<>>
  /\ vehicles = NoVehicles
  /\ arg = NoCall
  /\ out = NoCall

NextLegacy ==
  \/ \E o \in AuthOps : Call(Caller, o, FALSE)
  \/ Enter(Caller)
  \/ \E outcome \in SaveOutcomes : SaveToken(Caller, outcome)
  \/ \E e \in ExpiresInSet : PasswordOk(Caller, e)
  \/ PasswordFail(Caller, "neterr")
  \/ \E e \in ExpiresInSet, w \in BOOLEAN : RefreshOk(Caller, e, w)
  \/ RefreshRejected(Caller, "401")
  \/ RefreshFail(Caller, "neterr")
  \/ Finish(Caller)
  \/ Tick

SpecLegacy == InitLegacy /\ [][NextLegacy]_vars

\* One caller uses the manager, no one else writes the token path, and
\* every _save_token acquires the file lock and writes the file.
NextWritten ==
  \/ \E o \in AuthOps \cup {"invalidate_token"} : Call(Caller, o, FALSE)
  \/ Call(Caller, "authenticate", TRUE)
  \/ Invalidate(Caller)
  \/ Enter(Caller)
  \/ SaveToken(Caller, "ok")
  \/ \E e \in ExpiresInSet : PasswordOk(Caller, e)
  \/ PasswordFail(Caller, "neterr")
  \/ \E e \in ExpiresInSet, w \in BOOLEAN : RefreshOk(Caller, e, w)
  \/ RefreshRejected(Caller, "401")
  \/ RefreshFail(Caller, "neterr")
  \/ Finish(Caller)
  \/ Tick

SpecWritten == Init /\ [][NextWritten]_vars

\* One caller uses the client: get_vehicles, get_vehicle_status and
\* send_command, each through get_auth_headers and the vehicle API.
NextClient ==
  \/ \E o \in ClientOps \ {"send_command"} : Call(Caller, o, FALSE)
  \/ \E c \in CommandInputs : SendCommand(Caller, c)
  \/ Enter(Caller)
  \/ \E outcome \in SaveOutcomes : SaveToken(Caller, outcome)
  \/ \E e \in ExpiresInSet : PasswordOk(Caller, e)
  \/ \E s \in PasswordFailures : PasswordFail(Caller, s)
  \/ \E e \in ExpiresInSet, w \in BOOLEAN : RefreshOk(Caller, e, w)
  \/ \E s \in {"400", "401"} : RefreshRejected(Caller, s)
  \/ \E s \in {"500", "neterr"} : RefreshFail(Caller, s)
  \/ HttpOk(Caller)
  \/ HttpUnauthorized(Caller)
  \/ \E x \in FailingResponses : HttpFail(Caller, x.status, x.body)
  \/ Finish(Caller)
  \/ Tick

SpecClient == Init /\ [][NextClient]_vars

\* Every thread makes one call of the manager, and the calls overlap in
\* every way: the provider answers or fails at transport level, and a save
\* is written or abandoned on the file lock's timeout.  The manager starts
\* with no credential in memory, or with the credential of the token file
\* in memory (an earlier call loaded it).
InitConc ==
  /\ tokenFile \in InitTokenFiles
  /\ legacyFile \in InitLegacyFiles
  /\ token \in {NoToken} \cup
               (IF tokenFile.kind = "json" THEN {FromDict(tokenFile.data)}
                ELSE {})
  /\ lock = 0
  /\ now = 0
  /\ serial = 0
  /\ lastRT = NoRT
  /\ th = [t \in Threads |-> IdleThread]
  /\ invalidated = FALSE
  /\ fileLock = LockFileFree
  /\ ext = "idle"
  /\ saved = NoToken
  /\ objs = <<>>
  /\ vehicles = NoVehicles
  /\ arg = NoCall
  /\ out = NoCall

NextConc ==
  \/ \E t \in Threads, o \in AuthOps \cup {"invalidate_token"} :
        Call(t, o, FALSE)
  \/ \E t \in Threads : Call(t, "authenticate", TRUE)
  \/ \E t \in Threads : Invalidate(t)
  \/ \E t \in Threads : Enter(t)
  \/ \E t \in Threads, outcome \in {"ok", "timeout"} : SaveToken(t, outcome)
  \/ \E t \in Threads, e \in ExpiresInSet : PasswordOk(t, e)
  \/ \E t \in Threads : PasswordFail(t, "neterr")
  \/ \E t \in Threads, e \in ExpiresInSet, w \in BOOLEAN : RefreshOk(t, e, w)
  \/ \E t \in Threads : RefreshRejected(t, "401")
  \/ \E t \in Threads : RefreshFail(t, "neterr")
  \/ Tick

SpecConc == InitConc /\ [][NextConc]_vars

\* The same program under the scheduling the calls rely on: a thread
\* waiting at `with self._lock` enters once the lock stays free, every
\* request to the identity provider is answered or fails (requests.post
\* with timeout), and _save_token ends (the file lock is acquired or its
\* wait of 10 seconds times out).
Responds(t) ==
  \/ \E e \in ExpiresInSet : PasswordOk(t, e)
  \/ PasswordFail(t, "neterr")
  \/ \E e \in ExpiresInSet, w \in BOOLEAN : RefreshOk(t, e, w)
  \/ RefreshRejected(t, "401")
  \/ RefreshFail(t, "neterr")

\* The calls start with nothing in memory, a token file that is absent or
\* holds a record, and a legacy file that is absent or holds a record.
InitLive ==
  /\ InitConc
  /\ token = NoToken
  /\ tokenFile # FileCorrupt
  /\ legacyFile # FileCorrupt
  /\ legacyFile.kind = "json" => "expiry_time" \in DOMAIN legacyFile.data

SpecLive ==
  /\ InitLive
  /\ [][NextConc]_vars
  /\ \A t \in Threads :
        /\ WF_vars(Enter(t) \/ Invalidate(t))
        /\ WF_vars(Responds(t))
        /\ WF_vars(\E outcome \in {"ok", "timeout"} : SaveToken(t, outcome))

\* One caller uses the client against every response of the vehicle API,
\* with a manager that starts from the token file alone and an identity
\* provider that answers or fails at transport level.
InitGateway == Init /\ legacyFile = FileAbsent

NextGateway ==
  \/ \E o \in ClientOps \ {"send_command"} : Call(Caller, o, FALSE)
  \/ \E c \in CommandInputs : SendCommand(Caller, c)
  \/ Enter(Caller)
  \/ \E outcome \in {"ok", "timeout"} : SaveToken(Caller, outcome)
  \/ \E e \in ExpiresInSet : PasswordOk(Caller, e)
  \/ PasswordFail(Caller, "neterr")
  \/ \E e \in ExpiresInSet, w \in BOOLEAN : RefreshOk(Caller, e, w)
  \/ RefreshRejected(Caller, "401")
  \/ RefreshFail(Caller, "neterr")
  \/ HttpOk(Caller)
  \/ HttpUnauthorized(Caller)
  \/ \E x \in FailingResponses : HttpFail(Caller, x.status, x.body)
  \/ Finish(Caller)
  \/ Tick

SpecGateway == InitGateway /\ [][NextGateway]_vars

\* One caller uses the manager against an identity provider whose 200
\* responses may lack the expected shape, starting from a token file that
\* may lack a key; a save is written or abandoned on the file lock's
\* timeout.
InitProvider ==
  /\ token = NoToken
  /\ lock = 0
  /\ tokenFile \in InitTokenFiles \cup {FileIncomplete}
  /\ legacyFile \in InitLegacyFiles
  /\ now = 0
  /\ serial = 0
  /\ lastRT = NoRT
  /\ th = [t \in Threads |-> IdleThread]
  /\ invalidated = FALSE
  /\ fileLock = LockFileFree
  /\ ext = "idle"
  /\ saved = NoToken
  /\ objs = <<>>
  /\ vehicles = NoVehicles
  /\ arg = NoCall
  /\ out = NoCall

NextProvider ==
  \/ \E o \in AuthOps : Call(Caller, o, FALSE)
  \/ Call(Caller, "authenticate", TRUE)
  \/ Enter(Caller)
  \/ \E outcome \in {"ok", "timeout"} : SaveToken(Caller, outcome)
  \/ \E e \in ExpiresInSet : PasswordOk(Caller, e)
  \/ \E s \in PasswordFailures : PasswordFail(Caller, s)
  \/ \E x \in MalformedShapes : PasswordMalformed(Caller, x)
  \/ \E e \in ExpiresInSet, w \in BOOLEAN : RefreshOk(Caller, e, w)
  \/ \E s \in {"400", "401"} : RefreshRejected(Caller, s)
  \/ \E s \in {"500", "neterr"} : RefreshFail(Caller, s)
  \/ \E x \in MalformedShapes : RefreshMalformed(Caller, x)
  \/ Finish(Caller)
  \/ Tick

SpecProvider == InitProvider /\ [][NextProvider]_vars

\* One caller uses the client's vehicle registry and the vehicles' status
\* cache: get_vehicles, get_vehicle and Vehicle.get_status, with a manager
\* that starts from a token file holding a credential.
InitFleet == Init /\ tokenFile.kind = "json" /\ legacyFile = FileAbsent

NextFleet ==
  \/ Call(Caller, "get_vehicles", FALSE)
  \/ \E id \in LookupIds : GetVehicle(Caller, id)
  \/ \E k \in 1..MaxObjects, c \in BOOLEAN : GetStatus(Caller, k, c)
  \/ Enter(Caller)
  \/ SaveToken(Caller, "ok")
  \/ PasswordOk(Caller, 3600)
  \/ PasswordFail(Caller, "neterr")
  \/ \E results \in FleetLists : HttpVehicles(Caller, results)
  \/ \E payload \in StatusPayloads : HttpStatus(Caller, payload)
  \/ HttpUnauthorized(Caller)
  \/ HttpFail(Caller, "neterr", "none")
  \/ HttpFail(Caller, "500", "json")
  \/ Finish(Caller)

SpecFleet == InitFleet /\ [][NextFleet]_vars

\* ------------------------------------------ calls of models.py functions

\* The instants at which is_expired is called, and the expiries of the
\* credentials it is called on: before, at and after InitExpiry.
Instants == {0, InitExpiry - 1, InitExpiry, InitExpiry + 1}

\* The credentials is_expired is called on.
Credentials ==
  {[access_token |-> <<"a", 1>>, id_token |-> <<"i", 1>>,
    refresh_token |-> rt, token_type |-> "Bearer", expires_at |-> x] :
     rt \in {<<"r", 1>>, NoRT}, x \in Instants}

\* dict | dict: the payload with the keys of both, f's value where both
\* have the key.
Merge(f, g) ==
  [k \in DOMAIN f \cup DOMAIN g |-> IF k \in DOMAIN f THEN f[k] ELSE g[k]]

\* A payload that names a field k1, k2, both (with different values) or
\* not at all.
Named(k1, v1, k2, v2) ==
  {EmptyDict, [k \in {k1} |-> v1], [k \in {k2} |-> v2],
   [k \in {k1, k2} |-> IF k = k1 THEN v1 ELSE v2]}

\* The vehicle-list entries VehicleInfo.from_dict is called on: every way
\* of naming id, make, year and name, with a year that is a number, a
\* decimal string, zero or null.
InfoPayloads ==
  {Merge(a, Merge(b, Merge(c, d))) :
     a \in Named("id", PyStr("v1"), "vehicle_id", PyStr("v2")),
     b \in Named("vehicle_make", PyStr("Tesla"), "make", PyStr("Ford")),
     c \in Named("vehicle_year", PyInt(2023), "year", PyInt(2021))
           \cup Named("vehicle_year", PyStr("2022"), "year", PyStr("2019"))
           \cup Named("vehicle_year", PyInt(0), "year", PyInt(2021))
           \cup Named("vehicle_year", PyNone, "year", PyInt(2021)),
     d \in {EmptyDict, [vehicle_name |-> PyStr("Car")],
            [vehicle_name |-> PyStr("Car"), name |-> PyStr("Van")]}}

\* The status reports VehicleStatus.from_dict is called on: the nested
\* shape, the flattened shape, and a report with neither.
FlatPayloads ==
  {[vehicle_id |-> PyStr("123"), device_key |-> PyStr("device_123"),
    is_running |-> PyBool(b), is_locked |-> PyBool(l),
    battery_percent |-> PyInt(85), odometer |-> PyFloat(150005),
    fuel_level |-> PyInt(75)] : b, l \in BOOLEAN}
NestedPayloads ==
  {[id |-> PyStr("123"), device_key |-> PyStr("device_123"),
    last_known_state |->
      [controller |-> [engine_on |-> PyBool(b), armed |-> PyBool(l),
                       main_battery_voltage |-> PyFloat(126),
                       current_temperature |-> PyInt(72)],
       mileage |-> PyFloat(150005)]] : b, l \in BOOLEAN}
MinimalPayload ==
  [vehicle_id |-> PyStr("123"), device_key |-> PyStr("device_123")]

\* The payloads with a timestamp: a location, a status report (with
\* last_updated, with last_known_state.timestamp, or with a location) and
\* the parsed part of a command response; each without a timestamp too.
LocationPayloads ==
  {[latitude |-> PyFloat(10), longitude |-> PyFloat(20)]}
    \cup {[latitude |-> PyFloat(10), longitude |-> PyFloat(20),
           timestamp |-> PyStr(s)] : s \in TimestampStrings}
TimestampCalls ==
  LET status ==
        {[id |-> PyStr("123"), last_updated |-> PyStr(s)] :
           s \in TimestampStrings}
          \cup {[id |-> PyStr("123"),
                 last_known_state |-> [timestamp |-> PyStr(s)]] :
                  s \in TimestampStrings}
          \cup {[id |-> PyStr("123"), location |-> l] :
                  l \in LocationPayloads}
      command ==
        {[success |-> PyBool(TRUE)]}
          \cup {[success |-> PyBool(TRUE), timestamp |-> PyStr(s)] :
                  s \in TimestampStrings}
  IN {[fn |-> "Location.from_dict", data |-> d, build |-> b] :
        d \in LocationPayloads, b \in Builds}
       \cup {[fn |-> "VehicleStatus.from_dict timestamps", data |-> d,
              build |-> b] : d \in status, b \in Builds}
       \cup {[fn |-> "CommandResponse.from_dict", data |-> d, build |-> b] :
               d \in command, b \in Builds}

\* The calls made: the function, its argument, and for a credential the
\* object it was built from.
ModelCalls ==
  {[fn |-> "AuthToken.is_expired", self |-> c] : c \in Credentials}
    \cup {[fn |-> "AuthToken.from_dict.is_expired", self |-> c,
           data |-> ToDict(c)] : c \in Credentials}
    \cup {[fn |-> "VehicleInfo.from_dict", data |-> d] : d \in InfoPayloads}
    \cup {[fn |-> "VehicleStatus.from_dict", data |-> d] :
            d \in FlatPayloads \cup NestedPayloads \cup {MinimalPayload}}
    \cup TimestampCalls

\* A program that calls one function of models.py at some instant.
InitModels ==
  /\ token = NoToken
  /\ lock = 0
  /\ tokenFile = FileAbsent
  /\ legacyFile = FileAbsent
  /\ now \in Instants
  /\ serial = 0
  /\ lastRT = NoRT
  /\ th = [t \in Threads |-> IdleThread]
  /\ invalidated = FALSE
  /\ fileLock = LockFileFree
  /\ ext = "idle"
  /\ saved = NoToken
  /\ objs = <<>>
  /\ vehicles = NoVehicles
  /\ arg \in ModelCalls
  /\ out = NoCall

\* The function returns v.
Return(v) ==
  /\ out = NoCall
  /\ out' = [kind |-> "value", v |-> v]
  /\ UNCHANGED <<token, lock, tokenFile, legacyFile, now, serial, lastRT, th,
               invalidated, fileLock, ext, saved, fleet, arg>>

\* AuthToken.is_expired() of a credential built directly
IsExpiredCall ==
  /\ arg.fn = "AuthToken.is_expired"
  /\ Return(IsExpired(arg.self, now))

\* AuthToken.from_dict(data).is_expired()
IsExpiredOfStored ==
  /\ arg.fn = "AuthToken.from_dict.is_expired"
  /\ Return(IsExpired(FromDict(arg.data), now))

\* VehicleInfo.from_dict(data)
InfoFromDict ==
  /\ arg.fn = "VehicleInfo.from_dict"
  /\ Return(VehicleInfoFromDict(arg.data))

\* VehicleStatus.from_dict(data)
StatusFromDict ==
  /\ arg.fn = "VehicleStatus.from_dict"
  /\ Return(VehicleStatusFromDict(arg.data))

\* The function ends as x tells: it returns a value or raises.
Ends(x) ==
  /\ out = NoCall
  /\ out' = x
  /\ UNCHANGED <<token, lock, tokenFile, legacyFile, now, serial, lastRT, th,
               invalidated, fileLock, ext, saved, fleet, arg>>

\* Location.from_dict(data)
LocationFromDictCall ==
  /\ arg.fn = "Location.from_dict"
  /\ Ends(LocationFromDict(arg.data, arg.build))

\* VehicleStatus.from_dict(data), location and last_updated
StatusTimestampsCall ==
  /\ arg.fn = "VehicleStatus.from_dict timestamps"
  /\ Ends(StatusTimestamps(arg.data, arg.build))

\* CommandResponse.from_dict(data, command, device_key)
CommandResponseFromDict ==
  /\ arg.fn = "CommandResponse.from_dict"
  /\ Ends(CommandResponseTimestamp(arg.data, arg.build))

NextModels ==
  \/ IsExpiredCall
  \/ IsExpiredOfStored
  \/ InfoFromDict
  \/ StatusFromDict
  \/ LocationFromDictCall
  \/ StatusTimestampsCall
  \/ CommandResponseFromDict

SpecModels == InitModels /\ [][NextModels]_vars

\* ------------------------------------------- the token file, step by step

LockFileAvailableAlways == TRUE

\* filelock: acquire() succeeds only while no other FileLock holds the file
LockFileAvailable == fileLock = LockFileFree

\* _save_token of the manager: lock.acquire succeeds.
SaveAcquire(t) ==
  /\ th[t].pc = "save"
  /\ LockFileAvailable
  /\ fileLock' = "mgr"
  /\ th' = Moved(t, [th[t] EXCEPT !.pc = "save_locked"], FALSE)
  /\ UNCHANGED <<token, lock, tokenFile, legacyFile, now, serial, lastRT,
               invalidated, ext>>
  /\ UNCHANGED <<saved, fleet, pure>>

\* _save_token of the manager: the other saver holds the lock file for the
\* whole timeout, filelock.Timeout is raised and caught.
SaveTimeout(t) ==
  /\ th[t].pc = "save"
  /\ ~LockFileAvailable
  /\ AfterSave(t, "timeout")
  /\ UNCHANGED <<now, serial, lastRT, invalidated, fileLock, ext>>
  /\ UNCHANGED <<fleet, pure>>

\* _save_token of the manager: open(token_file, "w") truncates the file.
SaveOpen(t) ==
  /\ th[t].pc = "save_locked"
  /\ tokenFile' = FilePartial
  /\ th' = Moved(t, [th[t] EXCEPT !.pc = "save_writing"], FALSE)
  /\ UNCHANGED <<token, lock, legacyFile, now, serial, lastRT, invalidated,
               fileLock, ext>>
  /\ UNCHANGED <<saved, fleet, pure>>

\* _save_token of the manager: open(token_file, "w") raises OSError, and
\* the with block releases the lock file.
SaveOpenFails(t) ==
  /\ th[t].pc = "save_locked"
  /\ AfterSave(t, "ioerror")
  /\ fileLock' = LockFileFree
  /\ UNCHANGED <<now, serial, lastRT, invalidated, ext>>
  /\ UNCHANGED <<fleet, pure>>

\* _save_token of the manager: json.dump ends, the file is closed and the
\* lock file released.
SaveWrite(t) ==
  /\ th[t].pc = "save_writing"
  /\ AfterSave(t, "ok")
  /\ fileLock' = LockFileFree
  /\ UNCHANGED <<now, serial, lastRT, invalidated, ext>>
  /\ UNCHANGED <<fleet, pure>>

\* The other saver runs the same _save_token on the same token path.
ExtAcquire ==
  /\ ext = "idle"
  /\ LockFileAvailable
  /\ ext' = "locked"
  /\ fileLock' = "ext"
  /\ UNCHANGED <<token, lock, tokenFile, legacyFile, now, serial, lastRT, th,
               invalidated>>
  /\ UNCHANGED <<saved, fleet, pure>>

ExtOpen ==
  /\ ext = "locked"
  /\ ext' = "writing"
  /\ tokenFile' = FilePartial
  /\ saved' = NoToken
  /\ UNCHANGED <<token, lock, legacyFile, now, serial, lastRT, th,
               invalidated, fileLock>>
  /\ UNCHANGED <<fleet, pure>>

ExtWrite ==
  /\ ext = "writing"
  /\ ext' = "idle"
  /\ tokenFile' = JsonFile(ExtRecord)
  /\ saved' = NoToken
  /\ fileLock' = LockFileFree
  /\ UNCHANGED <<token, lock, legacyFile, now, serial, lastRT, th,
               invalidated>>
  /\ UNCHANGED <<fleet, pure>>

\* One caller uses the manager while another process saves to the same
\* token path; every _save_token goes through the lock file step by step.
NextStore ==
  \/ \E o \in AuthOps : Call(Caller, o, FALSE)
  \/ Call(Caller, "authenticate", TRUE)
  \/ Enter(Caller)
  \/ SaveAcquire(Caller)
  \/ SaveTimeout(Caller)
  \/ SaveOpen(Caller)
  \/ SaveOpenFails(Caller)
  \/ SaveWrite(Caller)
  \/ \E e \in ExpiresInSet : PasswordOk(Caller, e)
  \/ PasswordFail(Caller, "neterr")
  \/ \E e \in ExpiresInSet, w \in BOOLEAN : RefreshOk(Caller, e, w)
  \/ RefreshRejected(Caller, "401")
  \/ RefreshFail(Caller, "neterr")
  \/ Finish(Caller)
  \/ Tick
  \/ ExtAcquire
  \/ ExtOpen
  \/ ExtWrite

SpecStore == Init /\ [][NextStore]_vars

\* ---------------------------------------------------------------- claims

\* Thread t has entered authenticate() and _load_token has returned.
PastEntry(t) ==
  /\ th[t].pc \notin {"idle", "acquire"}
  /\ ~(th[t].pc = "save" /\ th[t].cont = "migrate")

\* The call of thread t returned a credential (authenticate) or the headers
\* built from one (get_auth_headers).
GotToken(t) ==
  /\ th[t].pc = "done"
  /\ th[t].op \in AuthOps
  /\ th[t].result.kind \in {"token", "headers"}

InFlight(t) == th[t].pc \in {"pw_wait", "rf_wait"}
Saving(t) == th[t].pc = "save"

\* C1: at most one identity-provider request (password or refresh grant) is
\* in flight at any time, no save of one caller overlaps the request or the
\* save of another, and the thread inside the section holds the lock.
C1_MutualExclusion ==
  /\ \A t, u \in Threads :
        t # u => ~((InFlight(t) \/ Saving(t)) /\ (InFlight(u) \/ Saving(u)))
  /\ \A t \in Threads : th[t].pc \in Section => lock = t

\* A request of one caller is in flight while another caller, who called
\* before the first one entered, waits for the lock.
C1_Witness ==
  \E t, u \in Threads :
     t # u /\ InFlight(t) /\ th[u].pc = "acquire" /\ th[u].waitedFor = t

\* C2 (as claimed): one invocation of a client operation performs at most
\* two HTTP calls to the vehicle API and at most one forced refresh.
C2_AtMostOneRetry ==
  \A t \in Threads :
     th[t].op \in ClientOps => th[t].http <= 2 /\ th[t].forced <= 1

\* C3 (as claimed): authenticate(force_refresh=True) never returns without
\* a request, and its first request is a refresh grant carrying the held
\* refresh token when there is one, a password grant otherwise.
C3_ForcedRefreshFirst ==
  \A t \in Threads :
     th[t].force /\ th[t].op = "authenticate" /\ PastEntry(t) =>
        /\ Len(th[t].log) >= 1
        /\ IF th[t].entryTok # NoToken /\ th[t].entryTok.refresh_token # NoRT
           THEN /\ th[t].log[1].grant = "refresh"
                /\ th[t].log[1].rt = th[t].entryTok.refresh_token
           ELSE th[t].log[1].grant = "password"

\* C3 (amended): authenticate(force_refresh=True) never returns the cached
\* credential without a request; its first and only identity-provider
\* request is a password grant, whether or not a refresh token is held, and
\* the credential it returns is the one of that grant's 200 response.
C3_ForcedPasswordGrant ==
  \A t \in Threads :
     th[t].force /\ th[t].op = "authenticate" /\ PastEntry(t) =>
        /\ Len(th[t].log) = 1
        /\ th[t].log[1].grant = "password"
        /\ GotToken(t) =>
              /\ th[t].log[1].status = "200"
              /\ th[t].result.token.access_token = th[t].log[1].ar.AccessToken

\* A forced call returned although the manager held an unexpired credential
\* with a refresh token when it entered.
C3_Witness ==
  \E t \in Threads :
     /\ th[t].force /\ GotToken(t)
     /\ th[t].entryTok # NoToken
     /\ th[t].entryTok.refresh_token # NoRT
     /\ ~IsExpired(th[t].entryTok, th[t].enteredAt)

\* C4 (as claimed): once a password grant is rejected with 400
\* NotAuthorizedException, InvalidCredentialsError is raised to the caller
\* and the call issues no further identity-provider request.
C4_BadCredentialsTerminal ==
  \A t \in Threads : \A i \in 1..Len(th[t].log) :
     th[t].log[i].grant = "password" /\ th[t].log[i].status = "400na" =>
        /\ i = Len(th[t].log)
        /\ th[t].pc = "done"
        /\ th[t].result = Raised("InvalidCredentialsError")

\* C5 (as claimed): a transport failure of the password or refresh grant
\* raises NetworkError to the caller and the call issues no further
\* identity-provider request.
C5_NetworkErrorTerminal ==
  \A t \in Threads : \A i \in 1..Len(th[t].log) :
     th[t].log[i].status = "neterr" =>
        /\ i = Len(th[t].log)
        /\ th[t].pc = "done"
        /\ th[t].result = Raised("NetworkError")

\* Caller u waited for the lock while caller v entered it, and both calls
\* of authenticate / get_auth_headers returned a credential.
Waited(u, v) ==
  /\ u # v
  /\ th[u].waitedFor = v
  /\ GotToken(u)
  /\ GotToken(v)

\* C6 (as claimed): concurrent callers, whatever their force_refresh, all
\* return the credential of the single round-trip of the first entrant.
C6_AllSameCredential ==
  \A u, v \in Threads :
     Waited(u, v) =>
        /\ th[u].result.token = th[v].result.token
        /\ th[u].log = <<>>

\* C6 (amended): a waiting caller with force_refresh=False that finds the
\* first entrant's credential in memory, unexpired, when it enters returns
\* that same credential without a request of its own; a waiting caller with
\* force_refresh=True makes its own password grant and returns the new
\* credential, not the first entrant's.
C6_WaitersShareUnlessForced ==
  \A u, v \in Threads :
     Waited(u, v) =>
        /\ (/\ ~th[u].force
            /\ th[u].entryTok = th[v].result.token
            /\ ~IsExpired(th[u].entryTok, th[u].enteredAt))
           => /\ th[u].result.token = th[v].result.token
              /\ th[u].log = <<>>
        /\ th[u].force
           => /\ Len(th[u].log) >= 1
              /\ th[u].result.token # th[v].result.token

\* A waiting caller returned the credential the first entrant fetched.
C6_Witness ==
  \E u, v \in Threads :
     /\ Waited(u, v)
     /\ ~th[u].force
     /\ th[v].log # <<>>
     /\ th[u].log = <<>>
     /\ th[u].result.token = th[v].result.token

\* The call of thread t is authenticate(force_refresh=False) or
\* get_auth_headers(), past the load.
Plain(t) == th[t].op \in AuthOps /\ ~th[t].force /\ PastEntry(t)

\* The credential the manager holds for the call of thread t: the one in
\* memory when the call entered, or else the one loaded from the store.
Held(t) == IF th[t].entryTok # NoToken THEN th[t].entryTok ELSE th[t].loaded

\* The first request of the call of t is a refresh grant carrying rt.
RefreshFirst(t, rt) ==
  /\ Len(th[t].log) >= 1
  /\ th[t].log[1].grant = "refresh"
  /\ th[t].log[1].rt = rt

C8_OnePasswordGrantAfterRejection ==
  \A t \in Threads :
     (/\ Len(th[t].log) >= 1
      /\ th[t].log[1].grant = "refresh"
      /\ th[t].log[1].status \in {"400", "401"})
     => /\ Len(th[t].log) = 2
        /\ th[t].log[2].grant = "password"
        /\ (th[t].log[2].status = "200" /\ th[t].pc = "done")
           => /\ th[t].result.kind \in {"token", "headers"}
              /\ th[t].result.token.access_token
                    = th[t].log[2].ar.AccessToken

\* The credential authenticate() must return without a request: the
\* unexpired one in memory, or with none in memory the unexpired record of
\* the token file.
Usable ==
  IF token # NoToken /\ ~IsExpired(token, now) THEN token
  ELSE IF /\ token = NoToken
          /\ tokenFile.kind = "json"
          /\ ~IsExpired(FromDict(tokenFile.data), now)
       THEN FromDict(tokenFile.data)
       ELSE NoToken

\* C9: whenever the in-memory credential is unexpired, or there is none in
\* memory and the record of the token file is unexpired,
\* authenticate(force_refresh=False) and get_auth_headers() return that
\* credential (get_auth_headers: the headers built from it) in the step
\* that enters the lock, with no identity-provider request and without
\* writing the token file.
C9_ValidReturnedUntouched ==
  [][\A t \in Threads :
       (/\ th[t].pc = "acquire"
        /\ th'[t].pc # "acquire"
        /\ th[t].op \in AuthOps
        /\ ~th[t].force
        /\ Usable # NoToken)
       => /\ th'[t].pc = "done"
          /\ th'[t].result.kind = IF th[t].op = "authenticate" THEN "token"
                                  ELSE "headers"
          /\ th'[t].result.token = Usable
          /\ th[t].op = "get_auth_headers"
             => th'[t].result.headers = AuthHeaders(Usable)
          /\ th'[t].log = <<>>
          /\ th'[t].writes = 0
          /\ tokenFile' = tokenFile
          /\ serial' = serial]_vars

\* A call returned the unexpired record of the token file, with no
\* credential in memory when it entered.
C9_Witness ==
  \E t \in Threads :
     /\ GotToken(t) /\ ~th[t].force
     /\ th[t].entryTok = NoToken
     /\ th[t].src = "primary"
     /\ th[t].log = <<>>
     /\ th[t].result.token = th[t].loaded
     /\ tokenFile = JsonFile(ToDict(th[t].result.token))

\* The call of t has received 200 for a refresh grant, its last request.
Refreshed(t) ==
  /\ th[t].pc \in {"save", "done"}
  /\ th[t].log # <<>>
  /\ th[t].log[Len(th[t].log)].grant = "refresh"
  /\ th[t].log[Len(th[t].log)].status = "200"

\* C10 (as claimed): after a successful refresh the credential's
\* refresh_token is the RefreshToken of the most recent provider response
\* that contained one, and the pre-refresh credential's when the refresh
\* response omits it, in memory and (the save written) in the persisted
\* record.
C10_LatestRefreshToken ==
  \A t \in Threads :
     Refreshed(t) /\ lastRT # NoRT =>
        /\ token.refresh_token = lastRT
        /\ (th[t].pc = "done" /\ th[t].lastSave = "ok")
           => /\ tokenFile.kind = "json"
              /\ tokenFile.data.refresh_token = lastRT

\* C10 (amended): after a successful refresh the credential's refresh_token
\* is the RefreshToken of that refresh response when it has one, and
\* otherwise the refresh_token of the pre-refresh credential, the one
\* loaded from the token store; the same holds of the persisted record once
\* the save was written.
C10_RefreshTokenCarried ==
  \A t \in Threads :
     Refreshed(t) =>
        LET ar == th[t].log[Len(th[t].log)].ar
            rt == IF "RefreshToken" \in DOMAIN ar THEN ar.RefreshToken
                  ELSE th[t].loaded.refresh_token
        IN /\ rt # NoRT
           /\ token.refresh_token = rt
           /\ (th[t].pc = "done" /\ th[t].lastSave = "ok")
              => /\ tokenFile.kind = "json"
                 /\ tokenFile.data.refresh_token = rt

\* A refresh response without RefreshToken was saved and returned.
C10_Witness ==
  \E t \in Threads :
     /\ Refreshed(t)
     /\ th[t].pc = "done"
     /\ th[t].lastSave = "ok"
     /\ "RefreshToken" \notin DOMAIN th[t].log[Len(th[t].log)].ar

\* The call of thread t is the first authenticate() (or get_auth_headers())
\* after invalidate_token() returned, and it has entered the manager lock.
AfterInvalidate(t) ==
  /\ th[t].afterInv
  /\ th[t].op \in AuthOps
  /\ th[t].pc \notin {"idle", "acquire"}

\* C11 (as claimed): after invalidate_token() returns, the in-memory
\* credential is empty and the token file does not exist, and the next
\* authenticate() uses no stored token, whatever files remain on disk: its
\* first and only grant is a password grant.
C11_InvalidateStartsAnew ==
  /\ invalidated => token = NoToken /\ tokenFile = FileAbsent
  /\ \A t \in Threads :
        AfterInvalidate(t) =>
           /\ th[t].entryTok = NoToken
           /\ th[t].src = "none"
           /\ th[t].loaded = NoToken
           /\ Len(th[t].log) = 1
           /\ th[t].log[1].grant = "password"

\* The step returns a credential from authenticate() to thread t.
ReturnsToken(t) ==
  /\ th[t].pc # "done"
  /\ th'[t].pc = "done"
  /\ th'[t].op \in AuthOps
  /\ th'[t].result.kind \in {"token", "headers"}

\* C12 (as claimed): every credential authenticate() returns is unexpired
\* at the moment of the return, on every path and for every ExpiresIn.
C12_ReturnedUsable ==
  [][\A t \in Threads :
       ReturnsToken(t) => ~IsExpired(th'[t].result.token, now')]_vars

\* The step gives thread t a 200 response of the identity provider.
Granted(t) == th[t].pc \in {"pw_wait", "rf_wait"} /\ th'[t].pc = "save"

\* The instants around the provider's stated expiry, and the clock's.
InstantsAround(x) == ((x - 102)..x) \cup {0, now, now + TickLen}

\* C13: a credential created from a provider response received at time t
\* with ExpiresIn = e has expires_at = t + e - 100, so at every instant u
\* at which it is not expired, u is at least 100 seconds before t + e; for
\* e = 3600 it has token_type "Bearer", is not expired at t and has
\* expires_at = t + 3500.
C13_ExpiryMargin ==
  [][\A t \in Threads :
       Granted(t) =>
          LET e == th'[t].log[Len(th'[t].log)].ar.ExpiresIn
          IN /\ token'.expires_at = now + e - 100
             /\ \A u \in InstantsAround(now + e) :
                   ~IsExpired(token', u) => (now + e) - u >= 100
             /\ e = 3600 => /\ token'.token_type = "Bearer"
                            /\ ~IsExpired(token', now)
                            /\ token'.expires_at = now + 3500]_vars

\* A response with ExpiresIn = 3600 has just been parsed.
C13_Witness ==
  \E t \in Threads :
     /\ th[t].pc = "save" /\ th[t].cont = "grant"
     /\ th[t].log[Len(th[t].log)].ar.ExpiresIn = 3600
     /\ token = th[t].saveTok
     /\ token.expires_at = now + 3500

\* The step takes a call of authenticate(force_refresh=False) of thread t
\* into the manager lock while the manager has no credential in memory.
EntersEmpty(t) ==
  /\ th[t].pc = "acquire"
  /\ th'[t].pc # "acquire"
  /\ th[t].op \in AuthOps
  /\ ~th[t].force
  /\ token = NoToken

\* Neither a primary nor a legacy record exists.
NoRecord == tokenFile = FileAbsent /\ legacyFile = FileAbsent

\* The token store gave the call of t nothing: no record, or none it
\* could parse.
LoadedNothing(t) ==
  /\ Plain(t)
  /\ th[t].entryTok = NoToken
  /\ th[t].src = "none"
  /\ th[t].loaded = NoToken

\* C14: an authenticate() of a manager with no in-memory credential
\* consults the token store before any network request (an unexpired
\* primary record is returned with no request, a legacy record is migrated
\* before any request); if neither a primary nor a legacy record exists its
\* first request is a password grant, and a call the store gave nothing
\* makes that one request only, never a refresh grant.
C14_StoreThenPasswordGrant ==
  /\ [][\A t \in Threads :
          EntersEmpty(t) =>
             /\ tokenFile.kind = "json"
                => /\ th'[t].src = "primary"
                   /\ th'[t].loaded = FromDict(tokenFile.data)
                   /\ ~IsExpired(FromDict(tokenFile.data), now)
                      => th'[t].log = <<>>
             /\ (tokenFile = FileAbsent /\ legacyFile.kind = "json")
                => /\ th'[t].src = "legacy"
                   /\ th'[t].log = <<>>
             /\ NoRecord
                => /\ LoadedNothing(t)'
                   /\ th'[t].pc = "pw_wait"
                   /\ Len(th'[t].log) = 1
                   /\ th'[t].log[1].grant = "password"]_vars
  /\ [](\A t \in Threads :
          LoadedNothing(t) =>
             /\ Len(th[t].log) = 1
             /\ th[t].log[1].grant = "password")

\* With no record on disk, the call made one password grant, saved its
\* credential and returned it.
C14_Witness ==
  \E t \in Threads :
     /\ LoadedNothing(t) /\ GotToken(t)
     /\ legacyFile = FileAbsent
     /\ th[t].writes = 1
     /\ th[t].log[1].status = "200"
     /\ tokenFile = JsonFile(ToDict(th[t].result.token))

\* The step ends the save of a freshly obtained credential of an
\* authenticate() call of thread t, with the given outcome.
SaveEnds(t, outcome) ==
  /\ th[t].pc = "save"
  /\ th[t].cont = "grant"
  /\ th[t].op \in AuthOps
  /\ th'[t].pc # "save"
  /\ th'[t].lastSave = outcome

\* The step returns to thread t the credential of the provider's last
\* response, which is also the one in memory.
ReturnsFresh(t) ==
  /\ th'[t].pc = "done"
  /\ th'[t].result.kind \in {"token", "headers"}
  /\ th'[t].result.token = th[t].saveTok
  /\ th'[t].result.token.access_token
        = th[t].log[Len(th[t].log)].ar.AccessToken
  /\ th'[t].log = th[t].log
  /\ token' = th[t].saveTok

\* C15: when the save of a freshly obtained credential cannot acquire the
\* file lock within its timeout, it is abandoned without raising:
\* authenticate() returns the new credential, the in-memory credential is
\* the new one, and the token file keeps its previous content.
C15_LockTimeoutNonFatal ==
  [][\A t \in Threads :
       SaveEnds(t, "timeout") => ReturnsFresh(t) /\ tokenFile' = tokenFile]_vars

\* A call returned a new credential whose save was abandoned, and the token
\* file still holds the record it had before.
C15_Witness ==
  \E t \in Threads :
     /\ GotToken(t)
     /\ th[t].log # <<>>
     /\ th[t].lastSave = "timeout"
     /\ th[t].writes = 0
     /\ token = th[t].result.token
     /\ tokenFile.kind = "json"
     /\ tokenFile # JsonFile(ToDict(token))

\* C16 (as claimed): any failure to persist a freshly obtained credential,
\* a lock timeout or an I/O error on the token file, is ignored:
\* authenticate() does not raise because of it and returns the credential
\* obtained from the provider.
C16_SaveFailureIgnored ==
  [][\A t \in Threads :
       SaveEnds(t, "timeout") \/ SaveEnds(t, "ioerror") => ReturnsFresh(t)]_vars

\* The manager has the token file open for writing.
MgrWriting == \E t \in Threads : th[t].pc = "save_writing"

\* C17: two savers of the same token path never have the token file open
\* for writing at the same time, each writes only while it holds the lock
\* file; a load never waits for the lock file (authenticate enters whenever
\* the manager lock is free, whoever holds the lock file, and leaves the
\* lock file alone); and a load that reads the record while a saver is
\* writing it yields no credential, so that authenticate() re-authenticates
\* with a password grant.
C17_FileLockExcludesSavers ==
  /\ [](/\ ~(MgrWriting /\ ext = "writing")
        /\ MgrWriting => fileLock = "mgr"
        /\ ext = "writing" => fileLock = "ext"
        /\ \A t \in Threads :
              (th[t].pc = "acquire" /\ th[t].op \in AuthOps /\ LockFree)
              => ENABLED Enter(t))
  /\ [][\A t \in Threads :
          (th[t].pc = "acquire" /\ th'[t].pc # "acquire")
          => /\ fileLock' = fileLock
             /\ (/\ tokenFile = FilePartial
                 /\ ~th[t].force
                 /\ ~UseCache(FALSE, token, now))
                => /\ th'[t].src = "partial"
                   /\ th'[t].loaded = NoToken
                   /\ token' = NoToken
                   /\ th'[t].pc = "pw_wait"
                   /\ Len(th'[t].log) = 1
                   /\ th'[t].log[1].grant = "password"]_vars

\* A call read the record while the other saver was writing it, made a
\* password grant, found the lock file held and gave up its own save.
C17_Witness ==
  \E t \in Threads :
     /\ th[t].src = "partial"
     /\ GotToken(t)
     /\ th[t].log[1].grant = "password"
     /\ th[t].lastSave = "timeout"
     /\ fileLock = "ext"

\* C18: send_command called with a command that is not in the fixed set
\* raises InvalidCommandError before any network activity: the call is
\* over at once with no HTTP call to the vehicle API, no response, and no
\* call into the manager (it never waits for or enters the manager lock,
\* and no identity-provider request is made).
C18_InvalidCommandNoNetwork ==
  \A t \in Threads :
     (th[t].op = "send_command" /\ th[t].cmd \notin AVAILABLE_COMMANDS)
     => /\ th[t].pc = "done"
        /\ th[t].result = Raised("InvalidCommandError")
        /\ th[t].http = 0
        /\ th[t].forced = 0
        /\ th[t].resp = <<>>
        /\ th[t].log = <<>>
        /\ th[t].hdr = NoHeaders

\* send_command was called with a known command in lower case and raised.
C18_Witness ==
  \E t \in Threads :
     /\ th[t].op = "send_command"
     /\ th[t].cmd = "remote_start"
     /\ th[t].pc = "done"
     /\ th[t].result = Raised("InvalidCommandError")

\* C19: when get_vehicle_status receives 401 on its first HTTP call and 200
\* on the retry, exactly two HTTP calls are made,
\* authenticate(force_refresh=True) is invoked exactly once, after the
\* first call and before the second, and the result is the one parsed from
\* the 200 body.
C19_RetryOnceAfter401 ==
  \A t \in Threads :
     th[t].op = "get_vehicle_status" =>
        /\ (th[t].phase = "forced" /\ Len(th[t].resp) = 1)
           => /\ th[t].resp[1].status = "401"
              /\ th[t].http = 1
              /\ th[t].forced = 1
        /\ (/\ th[t].pc = "done"
            /\ Len(th[t].resp) = 2
            /\ th[t].resp[1].status = "401"
            /\ th[t].resp[2] = [status |-> "200", body |-> "json"])
           => /\ th[t].http = 2
              /\ th[t].forced = 1
              /\ th[t].result = [kind |-> "value", status |-> "200"]

\* get_vehicle_status returned after a 401 and a 200.
C19_Witness ==
  \E t \in Threads :
     /\ th[t].op = "get_vehicle_status"
     /\ th[t].pc = "done"
     /\ Len(th[t].resp) = 2
     /\ th[t].resp[1].status = "401"
     /\ th[t].resp[2].status = "200"
     /\ th[t].result.kind = "value"
     /\ th[t].http = 2

\* The exceptions of the library (exceptions.py).
LibraryExceptions ==
  {"AuthenticationError", "TokenExpiredError", "InvalidCredentialsError",
   "APIError", "CommandFailedError", "VehicleNotFoundError",
   "InvalidCommandError", "RateLimitError", "NetworkError"}

\* The statuses operation o handles with a branch of its own.
Handled(o) ==
  {"200", "401", "429", "neterr"}
    \cup (IF o = "get_vehicle_status" THEN {"404"} ELSE {})
    \cup (IF o = "send_command" THEN {"424"} ELSE {})

\* C20 (as claimed): get_vehicle_status maps 404 to VehicleNotFoundError;
\* every operation maps 429 to RateLimitError, any status it does not
\* handle to APIError carrying the status code, and a transport failure to
\* NetworkError; no exception from outside the library escapes an
\* operation, whatever body the response has.
C20_ResponseClassification ==
  \A t \in Threads :
     (th[t].op \in ClientOps /\ th[t].pc = "done" /\ th[t].resp # <<>>)
     => LET last == th[t].resp[Len(th[t].resp)]
            res == th[t].result
        IN /\ (th[t].op = "get_vehicle_status" /\ last.status = "404")
              => res = Raised("VehicleNotFoundError")
           /\ last.status = "429"
              => res.kind = "raise" /\ res.exc = "RateLimitError"
           /\ last.status = "neterr" => res = Raised("NetworkError")
           /\ last.status \notin Handled(th[t].op)
              => res.kind = "raise" /\ res.exc = "APIError"
                 /\ res.status = last.status
           /\ res.kind = "raise" => res.exc \in LibraryExceptions

GotMalformed(t) ==
  /\ th[t].pc \in {"pw_wait", "rf_wait"}
  /\ Len(th'[t].log) >= Len(th[t].log)
  /\ "malformed" \in DOMAIN th'[t].log[Len(th[t].log)].ar

\* C22 (as claimed): a 200 response of the identity provider whose body
\* lacks the expected shape makes authenticate() raise AuthenticationError
\* (not InvalidCredentialsError), and leaves the credential in memory and
\* the token file as they were.
C22_MalformedIsAuthenticationError ==
  [][\A t \in Threads :
       GotMalformed(t) =>
          /\ th'[t].pc = "done"
          /\ th'[t].result = Raised("AuthenticationError")
          /\ token' = token
          /\ tokenFile' = tokenFile]_vars

\* C23: get_auth_headers() returns exactly the mapping with the two keys
\* Authorization and Content-Type, where Authorization is the token type
\* and the id token (not the access token) of the credential that
\* authenticate() returned in the same call, and Content-Type is
\* "application/json".
C23_AuthHeaders ==
  \A t \in Threads :
     (th[t].op = "get_auth_headers" /\ th[t].pc = "done"
      /\ th[t].result.kind # "raise")
     => LET h == th[t].result.headers
            tok == th[t].result.token
        IN /\ th[t].result.kind = "headers"
           /\ DOMAIN h = {"Authorization", "ContentType"}
           /\ h.Authorization = <<tok.token_type, tok.id_token>>
           /\ h.ContentType = "application/json"
           /\ tok.id_token # tok.access_token
              => h.Authorization # <<tok.token_type, tok.access_token>>

\* get_auth_headers returned the headers of a credential it obtained with
\* a password grant: "Bearer" and the id token of that response.
C23_Witness ==
  \E t \in Threads :
     /\ th[t].op = "get_auth_headers" /\ th[t].pc = "done"
     /\ th[t].result.kind = "headers"
     /\ Len(th[t].log) = 1
     /\ th[t].log[1].status = "200"
     /\ th[t].result.headers.Authorization
           = <<"Bearer", th[t].log[1].ar.IdToken>>
     /\ th[t].result.token.access_token = th[t].log[1].ar.AccessToken

\* The call of thread t is over and its last response was a 200.
EndedOn200(t) ==
  /\ th[t].pc = "done"
  /\ th[t].resp # <<>>
  /\ th[t].resp[Len(th[t].resp)].status = "200"

\* C24: after get_vehicles() returns, every returned vehicle (one per
\* entry of the list) is registered under its vehicle_id; get_vehicle(id)
\* for a registered id returns the registered object with zero HTTP calls;
\* for an unregistered id it performs one list fetch (one get_vehicles():
\* one HTTP call, repeated only after a 401) and returns the vehicle of
\* that list with the id, or raises VehicleNotFoundError when the list does
\* not contain the id.
C24_VehicleRegistry ==
  \A t \in Threads :
     /\ (th[t].op = "get_vehicles" /\ EndedOn200(t))
        => /\ Len(th[t].ret) = Len(th[t].data)
           /\ \A i \in 1..Len(th[t].ret) :
                 /\ th[t].ret[i] \in 1..Len(objs)
                 /\ vehicles[objs[th[t].ret[i]].info.vehicle_id] = th[t].ret[i]
     /\ (th[t].outer = "get_vehicle" /\ th[t].hit)
        => /\ th[t].pc = "done"
           /\ th[t].http = 0
           /\ th[t].resp = <<>>
           /\ th[t].log = <<>>
           /\ th[t].result
                = [kind |-> "vehicle", vehicle |-> vehicles[th[t].vehicle_id]]
           /\ objs[th[t].result.vehicle].info.vehicle_id = th[t].vehicle_id
     /\ (th[t].outer = "get_vehicle" /\ ~th[t].hit /\ th[t].pc = "done")
        => /\ th[t].http >= 1
           /\ th[t].http = Len(th[t].resp)
           /\ \A i \in 1..(Len(th[t].resp) - 1) : th[t].resp[i].status = "401"
           /\ EndedOn200(t)
              => LET found == {i \in 1..Len(th[t].ret) :
                                objs[th[t].ret[i]].info.vehicle_id
                                   = th[t].vehicle_id}
                 IN /\ found # {}
                       => /\ th[t].result.kind = "vehicle"
                          /\ \E i \in found :
                                th[t].result.vehicle = th[t].ret[i]
                    /\ found = {}
                       => th[t].result = Raised("VehicleNotFoundError")

\* get_vehicle("v1") returned the object an earlier get_vehicles had
\* registered, with no HTTP call.
C24_Witness ==
  \E t \in Threads :
     /\ th[t].outer = "get_vehicle" /\ th[t].hit /\ th[t].pc = "done"
     /\ th[t].vehicle_id = PyStr("v1")
     /\ th[t].http = 0
     /\ th[t].result.kind = "vehicle"
     /\ objs[th[t].result.vehicle].info.vehicle_id = PyStr("v1")
     /\ Len(objs) >= 2

\* The step ends a get_status of thread t on the Vehicle at position k with
\* a 200.
StatusFetched(t, k) ==
  /\ th[t].outer = "get_status"
  /\ th[t].self = k
  /\ th[t].pc = "http_wait"
  /\ EndedOn200(t)'

\* C25: Vehicle.get_status(use_cache=True) returns the cached status with
\* no fetch if and only if the object holds a cached status, and an object
\* holds one only through an earlier successful get_status on that same
\* object (a new object holds none);  get_status(use_cache=False) always
\* fetches;  a successful fetch replaces the cached value by the status it
\* returns, and a failed fetch leaves the cache unchanged.
C25_StatusCache ==
  /\ [](\A t \in Threads :
          th[t].outer = "get_status" =>
             LET k == th[t].self
             IN /\ (th[t].use_cache /\ th[t].held # PyNone)
                   => /\ th[t].pc = "done"
                      /\ th[t].http = 0
                      /\ th[t].resp = <<>>
                      /\ th[t].result = [kind |-> "status", status |-> th[t].held]
                      /\ objs[k].cached_status = th[t].held
                /\ (~th[t].use_cache \/ th[t].held = PyNone)
                   => /\ th[t].pc # "idle"
                      /\ th[t].pc = "done" => th[t].http >= 1
                /\ EndedOn200(t)
                   => /\ th[t].result
                           = [kind |-> "status",
                              status |-> VehicleStatusFromDict(th[t].data)]
                      /\ objs[k].cached_status = th[t].result.status
                /\ ~EndedOn200(t) => objs[k].cached_status = th[t].held)
  /\ [][/\ \A k \in 1..Len(objs) :
             objs'[k].cached_status # objs[k].cached_status
             => \E t \in Threads : StatusFetched(t, k)
        /\ \A k \in (Len(objs) + 1)..Len(objs') :
             objs'[k].cached_status = PyNone]_vars

\* get_status(use_cache=True) returned the status an earlier get_status
\* had cached, with no HTTP call.
C25_Witness ==
  \E t \in Threads :
     /\ th[t].outer = "get_status"
     /\ th[t].use_cache
     /\ th[t].held # PyNone
     /\ th[t].pc = "done"
     /\ th[t].http = 0
     /\ th[t].result.status.is_running = PyBool(TRUE)

\* C26: for every credential and every instant now, is_expired() is true
\* if and only if now >= expires_at, and a credential rebuilt by from_dict
\* from the persisted record of a credential gives the same answer as the
\* credential itself.
C26_IsExpiredIff ==
  (out # NoCall
   /\ arg.fn \in {"AuthToken.is_expired", "AuthToken.from_dict.is_expired"})
  => (out.v <=> now >= arg.self.expires_at)

\* is_expired() was called at the very instant of expires_at on a
\* credential rebuilt from its record, and returned true.
C26_Witness ==
  /\ arg.fn = "AuthToken.from_dict.is_expired"
  /\ out # NoCall
  /\ now = arg.self.expires_at
  /\ now = InitExpiry
  /\ out.v

\* The step is a _load_token of thread t that read the primary record.
LoadsPrimary(t) ==
  /\ th[t].pc = "acquire"
  /\ th'[t].pc # "acquire"
  /\ th'[t].src = "primary"

\* The five fields of credentials c and d are equal.
SameFields(c, d) ==
  /\ c.access_token = d.access_token
  /\ c.id_token = d.id_token
  /\ c.refresh_token = d.refresh_token
  /\ c.token_type = d.token_type
  /\ c.expires_at = d.expires_at

ParsedStatus ==
  out # NoCall /\ arg.fn = "VehicleStatus.from_dict"

\* C28 (as claimed): VehicleStatus.from_dict accepts the nested shape and
\* the flattened shape: a nested payload's status has the values under
\* last_known_state.controller, and a flattened payload's status has the
\* payload's top-level is_running, is_locked, battery_percent, odometer and
\* fuel_level (is_running true, battery_percent 85, odometer 15000.5,
\* fuel_level 75 parse to exactly those values).
C28_StatusBothShapes ==
  ParsedStatus =>
     /\ arg.data \in NestedPayloads
        => /\ out.v.is_running = arg.data.last_known_state.controller.engine_on
           /\ out.v.is_locked = arg.data.last_known_state.controller.armed
           /\ out.v.odometer = arg.data.last_known_state.mileage
     /\ arg.data \in FlatPayloads
        => /\ out.v.is_running = arg.data.is_running
           /\ out.v.is_locked = arg.data.is_locked
           /\ out.v.battery_percent = PyInt(85)
           /\ out.v.odometer = PyFloat(150005)
           /\ out.v.fuel_level = PyInt(75)

\* VehicleInfo.from_dict has returned the vehicle of the payload data.
ParsedInfo ==
  out # NoCall /\ arg.fn = "VehicleInfo.from_dict"

\* `k in d` for a payload d
Has(d, k) == k \in DOMAIN d

\* The year a payload yields through one name alone: the int of its value,
\* or None for a value that is null, zero or empty.
YearOf(x) == IF Truthy(x) THEN IntOf(x) ELSE PyNone

\* What the claim holds for the fields whose first candidate decides by its
\* presence: vehicle_id, make and name, and the optional fields.
InfoByPresence ==
  LET d == arg.data
      v == out.v
  IN /\ v.vehicle_id = IF Has(d, "id") THEN d.id
                       ELSE IF Has(d, "vehicle_id") THEN d.vehicle_id
                       ELSE PyStr("")
     /\ v.make = IF Has(d, "vehicle_make") THEN d.vehicle_make
                 ELSE IF Has(d, "make") THEN d.make
                 ELSE PyNone
     /\ v.name = IF Has(d, "vehicle_name") THEN d.vehicle_name
                 ELSE IF Has(d, "name") THEN d.name
                 ELSE PyStr("Unknown Vehicle")
     /\ ~Has(d, "color") => v.color = PyNone
     /\ ~Has(d, "vin") => v.vin = PyNone
     /\ (~Has(d, "vehicle_model") /\ ~Has(d, "model")) => v.model = PyNone

Unparsable(f) == f \in {FileCorrupt, FileIncomplete}

\* The step is the _load_token of a call of thread t: the call enters the
\* manager lock, is not forced and finds no unexpired credential in memory.
Loads(t) ==
  /\ th[t].pc = "acquire"
  /\ th'[t].pc # "acquire"
  /\ th[t].op \in AuthOps
  /\ ~th[t].force
  /\ ~(token # NoToken /\ ~IsExpired(token, now))

\* The step writes the credential of a password grant of thread t to the
\* token file.
WritesGrant(t) ==
  /\ th[t].pc = "save"
  /\ th[t].cont = "grant"
  /\ th'[t].lastSave = "ok"
  /\ th'[t].pc # "save"

\* C30: when the primary token file exists but cannot be parsed, the load
\* yields no credential without raising, the legacy file is not consulted
\* (it is neither migrated nor removed), authenticate() goes on to a
\* password grant, never a refresh grant, and the save of the credential
\* that grant returns replaces the unparsable file by a full record of it.
C30_CorruptPrimaryIsAbsent ==
  /\ [][\A t \in Threads :
          /\ (Loads(t) /\ Unparsable(tokenFile))
             => /\ th'[t].loaded = NoToken
                /\ token' = NoToken
                /\ th'[t].src # "legacy"
                /\ legacyFile' = legacyFile
                /\ tokenFile' = tokenFile
                /\ th'[t].pc = "pw_wait"
                /\ Len(th'[t].log) = 1
                /\ th'[t].log[1].grant = "password"
          /\ (WritesGrant(t) /\ Unparsable(tokenFile))
             => /\ Parsable(tokenFile')
                /\ FromDict(tokenFile'.data) = token'
                /\ token' = th[t].saveTok
                /\ legacyFile' = legacyFile]_vars
  /\ [](\A t \in Threads :
          (Unparsable(tokenFile) /\ Plain(t) /\ th[t].loaded = NoToken
           /\ th[t].entryTok = NoToken)
          => \A i \in 1..Len(th[t].log) : th[t].log[i].grant = "password")

\* A call that found a token file it could not parse, with a legacy
\* file next to it, has replaced it by the record of the credential of its
\* password grant and returned that credential; the legacy file is still
\* there.
C30_Witness ==
  \E t \in Threads :
     /\ GotToken(t)
     /\ th[t].loaded = NoToken
     /\ th[t].src = "none"
     /\ Len(th[t].log) = 1
     /\ th[t].log[1].grant = "password"
     /\ th[t].writes = 1
     /\ tokenFile = JsonFile(ToDict(th[t].result.token))
     /\ legacyFile.kind = "json"

\* The step is a _load_token of thread t that opens the legacy file and
\* converts its record.
ReadsLegacy(t) ==
  /\ th[t].pc = "acquire"
  /\ th'[t].src = "legacy"

\* The step ends a _load_token of thread t that returns the credential it
\* converted from the legacy record.
Migrated(t) ==
  /\ th[t].pc = "save"
  /\ th[t].cont = "migrate"
  /\ th'[t].loaded = th[t].saveTok

\* C31: the legacy record is read at most once: a load reads the legacy
\* file only when there is no primary token file, the load that returns the
\* converted credential leaves no legacy file, and from then on there is
\* no legacy file and no load reads one.
C31_LegacyReadOnce ==
  [][\A t \in Threads :
       /\ ReadsLegacy(t) => (tokenFile = FileAbsent /\ Exists(legacyFile))
       /\ Migrated(t) => legacyFile' = FileAbsent
       /\ legacyFile = FileAbsent
          => (legacyFile' = FileAbsent /\ ~ReadsLegacy(t))]_vars

\* A later call loads from the primary token file the credential an earlier
\* load converted from the legacy record, and there is no legacy file.
C31_Witness ==
  \E t \in Threads :
     /\ PastEntry(t)
     /\ th[t].src = "primary"
     /\ th[t].loaded # NoToken
     /\ th[t].loaded.access_token = <<"la", 0>>
     /\ legacyFile = FileAbsent

\* The legacy record d carries no usable expiry: neither expiry_time nor an
\* expiry_date that is a number.
NoLegacyExpiry(d) ==
  /\ "expiry_time" \notin DOMAIN d
  /\ ("expiry_date" \in DOMAIN d => d.expiry_date.py \notin {"int", "float"})

\* C32: a load that converts a legacy record with expiry_time = e yields a
\* credential with expires_at = e, which is expired exactly when now >= e
\* (and authenticate() returns it at once exactly when it is not), and the
\* legacy file is removed; a legacy record with neither expiry_time nor a
\* numeric expiry_date yields a credential that is expired at load time, and
\* authenticate() goes on to a refresh grant or a password grant.
C32_LegacyExpiry ==
  [][\A t \in Threads :
       Migrated(t) =>
         LET d == legacyFile.data
             x == th'[t].loaded
         IN /\ token' = x
            /\ legacyFile' = FileAbsent
            /\ "expiry_time" \in DOMAIN d
               => /\ x.expires_at = d.expiry_time
                  /\ IsExpired(x, now) <=> now >= d.expiry_time
                  /\ (th'[t].pc = "done" /\ th'[t].result.kind # "raise"
                      /\ th'[t].result.token = x)
                     <=> now < d.expiry_time
            /\ NoLegacyExpiry(d)
               => /\ IsExpired(x, now)
                  /\ th'[t].pc \in {"rf_wait", "pw_wait"}
                  /\ th'[t].log[1].grant =
                       (IF x.refresh_token # NoRT THEN "refresh"
                                                  ELSE "password")]_vars

\* A call has returned, without any request, the unexpired credential its
\* load converted from a legacy record with expiry_time; the legacy file is
\* gone.
C32_Witness ==
  \E t \in Threads :
     /\ GotToken(t)
     /\ th[t].src = "legacy"
     /\ th[t].log = <<>>
     /\ th[t].result.token = th[t].loaded
     /\ th[t].loaded.expires_at = InitExpiry
     /\ now < InitExpiry
     /\ legacyFile = FileAbsent

\* A call whose load converted a legacy record with a refresh token and an
\* expiry_date that is not a number is waiting for the refresh grant it
\* sent with that refresh token.
C32_WitnessNoExpiry ==
  \E t \in Threads :
     /\ th[t].pc = "rf_wait"
     /\ th[t].src = "legacy"
     /\ th[t].loaded.expires_at = th[t].enteredAt
     /\ th[t].log[1].rt = <<"lr", 0>>

\* The timestamp strings of the payload of the call: those under a
\* timestamp or last_updated key, in the payload or one level below.
TimestampsGiven ==
  LET d == arg.data
      own(x) == {x[k].v : k \in DOMAIN x \cap {"timestamp", "last_updated"}}
      sub(k) == IF k \in DOMAIN d THEN own(d[k]) ELSE {}
  IN own(d) \cup sub("last_known_state") \cup sub("location")

\* The timestamp the returned object holds: its timestamp or last_updated
\* field, or its location's timestamp.
TimestampKept ==
  LET v == out.v
  IN IF "last_updated" \in DOMAIN v
     THEN IF v.last_updated # PyNone \/ v.location = PyNone
          THEN v.last_updated ELSE v.location.timestamp
     ELSE v.timestamp

\* C33: an unparsable timestamp string in a parsed payload (status
\* last_updated or last_known_state timestamp, location timestamp, command
\* response timestamp) is treated as absent and from_dict never raises, and
\* a timestamp with the "Z" suffix is parsed as the instant of the one with
\* the "+00:00" offset.
C33_TimestampsTolerant ==
  (out # NoCall /\ arg \in TimestampCalls)
  => /\ out.kind = "value"
     /\ "yesterday" \in TimestampsGiven => TimestampKept = PyNone
     /\ "2024-01-01T00:00:00Z" \in TimestampsGiven
        => TimestampKept = DatetimeOf("2024-01-01T00:00:00+00:00")
     /\ "2024-01-01T00:00:00+00:00" \in TimestampsGiven
        => TimestampKept = DatetimeOf("2024-01-01T00:00:00+00:00")

\* C34: during legacy migration the legacy file is deleted only if the
\* converted credential has been written to the primary token file: no step
\* removes the legacy file and leaves a primary token file that does not
\* hold the converted credential.
C34_LegacyDeletedOnlyIfSaved ==
  [][\A t \in Threads :
       (th[t].pc = "save" /\ th[t].cont = "migrate"
        /\ Exists(legacyFile) /\ ~Exists(legacyFile'))
       => /\ Parsable(tokenFile')
          /\ FromDict(tokenFile'.data) = th[t].saveTok]_vars

\* C35: when authenticate() raises NetworkError, AuthenticationError or
\* InvalidCredentialsError, the credential in memory is the one held when
\* the call entered the manager lock and the call has not written the token
\* file; in particular an expired credential with a refresh token is still
\* held.
C35_FailedCallChangesNothing ==
  \A t \in Threads :
     (/\ th[t].pc = "done"
      /\ th[t].op = "authenticate"
      /\ th[t].result.kind = "raise"
      /\ th[t].result.exc \in {"NetworkError", "AuthenticationError",
                                "InvalidCredentialsError"})
     => /\ token = th[t].entryTok
        /\ th[t].writes = 0

\* The particular case of C35 alone: a call that entered with an expired
\* credential with a refresh token in memory and raised has left a
\* credential in memory.
C35_ExpiredCredentialKept ==
  \A t \in Threads :
     (/\ th[t].pc = "done"
      /\ th[t].op = "authenticate"
      /\ ~th[t].force
      /\ th[t].result.kind = "raise"
      /\ th[t].result.exc \in {"NetworkError", "AuthenticationError",
                                "InvalidCredentialsError"}
      /\ th[t].entryTok # NoToken)
     => (th[t].entryTok.refresh_token # NoRT => token = th[t].entryTok)

\* The step sends the HTTP request of a client operation of thread t after
\* a 401.
Retries(t) ==
  /\ th[t].op \in ClientOps
  /\ th[t].forced >= 1
  /\ th[t].pc # "http_wait"
  /\ th'[t].pc = "http_wait"

\* C36: after a 401 the retried request carries the Authorization header
\* built from the credential the forced authenticate() returned, never the
\* header of the rejected request; when the forced authenticate() raises,
\* the operation ends with that error and sends no further request.
C36_RetryUsesForcedCredential ==
  [][\A t \in Threads :
       /\ Retries(t)
          => /\ th'[t].hdr = AuthHeaders(th[t].forcedTok)
             /\ th'[t].hdr # th[t].hdr
       /\ (th[t].op \in ClientOps /\ th[t].phase = "forced"
           /\ th'[t].pc = "done")
          => /\ th'[t].result.kind = "raise"
             /\ th'[t].result.exc \in {"NetworkError", "AuthenticationError",
                                       "InvalidCredentialsError"}
             /\ th'[t].http = th[t].http
             /\ th'[t].http = Len(th'[t].resp)]_vars

\* C37: every authenticate(), get_auth_headers() and invalidate_token()
\* call eventually returns or raises with the manager lock released; the
\* lock is held only by a thread inside the section, so a call that ended,
\* by a return or by an exception, never leaves it held and a later caller
\* is not blocked forever.
C37_CallsEnd ==
  /\ \A t \in Threads :
        (th[t].pc # "idle") ~> (th[t].pc = "done" /\ lock # t)
  /\ [](\A t \in Threads :
          /\ lock = t => th[t].pc \in Section
          /\ th[t].pc = "acquire" => lock # t)

\* Every thread's call has ended, one of them by an exception raised inside
\* the section and one after waiting for the lock the other held; the lock
\* is free.
C37_Witness ==
  /\ lock = 0
  /\ \A t \in Threads : th[t].pc = "done"
  /\ \E t \in Threads :
        /\ th[t].result.kind = "raise"
        /\ Len(th[t].log) >= 1
  /\ \E t \in Threads : th[t].waitedFor # 0

\* C38: for a single manager with no other writer of the token path and
\* no abandoned save, whenever authenticate() has returned a credential the
\* token file decodes to a credential equal in all five fields to the one
\* in memory and to the one returned.
C38_StoreMatchesMemory ==
  \A t \in Threads :
     GotToken(t)
     => /\ Parsable(tokenFile)
        /\ token # NoToken
        /\ SameFields(FromDict(tokenFile.data), token)
        /\ SameFields(FromDict(tokenFile.data), th[t].result.token)

\* A call has returned the credential of a refresh grant that came without
\* a refresh token, after an earlier call had saved the credential it
\* refreshed.
C38_Witness ==
  \E t \in Threads :
     /\ GotToken(t)
     /\ th[t].src = "primary"
     /\ th[t].writes = 1
     /\ Len(th[t].log) = 1
     /\ th[t].log[1].grant = "refresh"
     /\ th[t].log[1].status = "200"
     /\ "RefreshToken" \notin DOMAIN th[t].log[1].ar
     /\ th[t].loaded.access_token = <<"a", 1>>
     /\ tokenFile = JsonFile(ToDict(th[t].result.token))

\* The step is the entry of a non-forced authenticate() of thread t that
\* holds an expired credential in memory while the token file holds a
\* record.
ReloadsExpired(t) ==
  /\ Loads(t)
  /\ token # NoToken
  /\ Parsable(tokenFile)

\* C39: when the credential in memory is expired, a non-forced
\* authenticate() reads the token file before any request and puts its
\* record in memory: a record that is not expired is returned with no
\* request to the identity provider, and an expired one is refreshed with
\* the refresh token of the record, not with the one held in memory before.
C39_ReloadBeforeRequest ==
  [][\A t \in Threads :
       ReloadsExpired(t) =>
         LET x == FromDict(tokenFile.data)
         IN /\ token' = x
            /\ th'[t].loaded = x
            /\ ~IsExpired(x, now)
               => /\ th'[t].pc = "done"
                  /\ th'[t].result.token = x
                  /\ th'[t].log = <<>>
                  /\ serial' = serial
            /\ (IsExpired(x, now) /\ x.refresh_token # NoRT)
               => /\ th'[t].pc = "rf_wait"
                  /\ Len(th'[t].log) = 1
                  /\ th'[t].log[1].grant = "refresh"
                  /\ th'[t].log[1].rt = x.refresh_token]_vars

\* A call that entered with an expired credential in memory has returned,
\* without a request, the unexpired credential another process had saved.
C39_Witness ==
  \E t \in Threads :
     /\ GotToken(t)
     /\ th[t].entryTok # NoToken
     /\ IsExpired(th[t].entryTok, th[t].enteredAt)
     /\ th[t].log = <<>>
     /\ th[t].result.token = FromDict(ExtRecord)
     /\ th[t].entryTok # FromDict(ExtRecord)
     /\ token = FromDict(ExtRecord)

\* A call that entered with an expired credential in memory is waiting for
\* the refresh grant it sent with the refresh token of the expired record
\* another process had saved.
C39_WitnessRefresh ==
  \E t \in Threads :
     /\ th[t].pc = "rf_wait"
     /\ th[t].entryTok # NoToken
     /\ th[t].entryTok.refresh_token # NoRT
     /\ th[t].entryTok.refresh_token # <<"xr", 0>>
     /\ th[t].loaded = FromDict(ExtRecord)
     /\ th[t].log[1].rt = <<"xr", 0>>

\* The step ends a get_vehicles of thread t with a 200.
ListFetched(t) ==
  /\ th[t].pc = "http_wait"
  /\ th[t].op = "get_vehicles"
  /\ th'[t].pc = "done"
  /\ th'[t].resp[Len(th'[t].resp)].status = "200"

\* C40: the registry only grows or overwrites: no step unregisters an id,
\* so every id a successful list fetch returned stays registered and
\* get_vehicle(id) returns its object without a fetch, also when a later
\* list omits it; each successful get_vehicles() registers under every
\* listed id a new object with an empty status cache, and leaves the other
\* ids as they were.
C40_RegistryGrows ==
  /\ [][\A t \in Threads :
          /\ \A id \in VehicleIds : vehicles[id] # 0 => vehicles'[id] # 0
          /\ ListFetched(t)
             => LET results == th'[t].data
                IN \A id \in VehicleIds :
                      IF Matches(results, id) # {}
                      THEN /\ vehicles'[id] \in (Len(objs) + 1)..Len(objs')
                           /\ objs'[vehicles'[id]].info.vehicle_id = id
                           /\ objs'[vehicles'[id]].cached_status = PyNone
                      ELSE vehicles'[id] = vehicles[id]
          /\ (th[t].pc = "idle" /\ th'[t].outer = "get_vehicle"
              /\ vehicles[th'[t].vehicle_id] # 0)
             => /\ th'[t].pc = "done"
                /\ th'[t].http = 0
                /\ th'[t].result
                     = [kind |-> "vehicle",
                        vehicle |-> vehicles[th'[t].vehicle_id]]]_vars
  /\ [](\A k \in 1..Len(objs) : vehicles[objs[k].info.vehicle_id] # 0)

\* get_vehicle("v2") returned, with no HTTP call, the object of the first
\* list fetch although the second list omitted v2; that second fetch
\* replaced the object of v1, which held a cached status, by a new one with
\* an empty cache.
C40_Witness ==
  \E t \in Threads :
     /\ th[t].outer = "get_vehicle" /\ th[t].hit /\ th[t].pc = "done"
     /\ th[t].vehicle_id = PyStr("v2")
     /\ th[t].http = 0
     /\ th[t].result = [kind |-> "vehicle", vehicle |-> 2]
     /\ Len(objs) = 3
     /\ vehicles[PyStr("v1")] = 3
     /\ vehicles[PyStr("v2")] = 2
     /\ objs[1].cached_status # PyNone
     /\ objs[3].cached_status = PyNone

====
